---- MODULE Spec2Model ----
(***************************************************************************)
(* ChronosRep: credential fusion (irv_pe.py), behavioural surveillance     *)
(* (bsm.py), volatility-adjusted dynamics (vadm.py), interaction engine    *)
(* (ite.py) and the scheduler loop with its scenarios (model.py,           *)
(* scenarios.py).                                                          *)
(*                                                                         *)
(* Numbers.  Masses of a mass assignment are exact rationals: a BBA is a   *)
(* record [m |-> numerators keyed by hypothesis, d |-> common denominator].*)
(* Every other float of the program is a fixed-point integer: weights in   *)
(* units of 1/WScale, z-scores and CUSUM accumulators in units of          *)
(* 1/ZScale, reputations in units of 1/XScale, theta in units of           *)
(* 1/TScale, logarithms in units of 1/LScale.                              *)
(***************************************************************************)
EXTENDS Integers, Sequences, FiniteSets, TLC

VARIABLES
    \* ---- evidence fusion engine (irv_pe.py) ----
    acc,          \* the fused BBA accumulated so far (`fused` in process)
    lastM1,       \* left operand of the last fusion / input of the last discount
    lastM2,       \* right operand of the last fusion
    lastW,        \* weight of the last discount, in 1/WScale
    lastOp,       \* "none" | "start" | "combine" | "downweight" | "condition" | "process"
    nFold,        \* number of combinations folded into acc
    credsIn,      \* argument of the last process call
    condition_set, \* condition hypothesis of the last conditioning
    irvOut,       \* result of the last process call
    \* ---- behavioural surveillance monitor (bsm.py) ----
    bsm_cfg,      \* constructor arguments of the BSM instance: cusum_h, cusum_k
    bsm_states,   \* BSM._states: actor -> _StreamState
    bsm_pc,       \* "idle" | "loop": position inside BSM.monitor
    bsm_agent,    \* agent_id of the monitor call in progress
    bsm_stream,   \* outcomes of behavior_stream not yet processed
    bsm_alarms,   \* the local list `alarms` of the call in progress
    bsm_result,   \* the dict returned by the last completed monitor call
    \* ---- volatility-adjusted dynamics (vadm.py) ----
    vadm_cfg,     \* constructor arguments of the VADM instance
    vadm_states,  \* VADM._states: actor -> _AgentState
    vadm_ret,     \* the last step call: actor, returned x and sigma_w, and its
                  \* mu, x before the step, gamma and jump
    ou_traj,      \* the last call when it was step_ou_only: arguments and trajectory
    \* ---- scheduler, agents, interaction graph (model.py, ite.py) ----
    sim_cfg,      \* the run: ChronosRepModel.T and the values ITE._rng.randint yields
    ite_cfg,      \* constructor arguments of the ITE instance
    scenario,     \* the scenario object: its class and model._attacker_ids
    is_attacker,  \* ChronosAgent.is_attacker
    irv0,         \* ChronosAgent.irv[0]
    reputation,   \* ChronosAgent.reputation
    volatility,   \* ChronosAgent.volatility
    isolated,     \* ChronosAgent.isolated
    nodes,        \* the nodes of ITE._graph
    weight,       \* ITE._graph[u][v]["weight"], 0 when there is no edge
    last,         \* ITE._graph[u][v]["last"]
    nbrs,         \* ITE._nbrs
    partition,    \* ITE._partition
    comm_stats,   \* ITE._comm_stats
    ite_step,     \* ITE._step
    current_step, \* ChronosRepModel.current_step
    newly_isolated, \* ChronosRepModel._newly_isolated
    isolation_step, \* ChronosRepModel._isolation_step
    phase,        \* position inside ChronosRepModel.step
    pending,      \* agents the RandomActivation schedule has yet to step
    lastEvent,    \* the operation that produced the current state
    \* ---- two runs of the same program, side by side ----
    run_env,      \* per run: the wall clock and the process-wide generator `random`
    run_out,      \* per run: what the calls made so far have returned
    \* ---- two VADM instances stepped in opposite actor orders ----
    order_vadm,   \* per order: VADM._states and the position of VADM._rng
    order_ret,    \* per order: actor -> the pair VADM.step returned
    \* ---- credential registry (identity/registry.py) ----
    reg_entries,    \* CredentialRegistry._entries: vc_id -> RegistryEntry
    reg_by_subject, \* CredentialRegistry._by_subject: subject -> list of vc_id
    reg_by_type,    \* CredentialRegistry._by_type: vc_type -> list of vc_id
    reg_totals,     \* _total_registered and _total_revoked
    reg_ret         \* the last call on the registry and what it returned

fusionVars == <<acc, lastM1, lastM2, lastW, lastOp, nFold, credsIn, condition_set, irvOut>>
bsmVars    == <<bsm_cfg, bsm_states, bsm_pc, bsm_agent, bsm_stream, bsm_alarms, bsm_result>>
vadmVars   == <<vadm_cfg, vadm_states, vadm_ret, ou_traj>>
simVars    == <<sim_cfg, ite_cfg, scenario, is_attacker, irv0, reputation, volatility, isolated,
                nodes, weight, last, nbrs, partition, comm_stats, ite_step,
                current_step, newly_isolated, isolation_step, phase, pending,
                lastEvent>>
runVars    == <<run_env, run_out>>
orderVars  == <<order_vadm, order_ret>>
regVars    == <<reg_entries, reg_by_subject, reg_by_type, reg_totals, reg_ret>>
vars       == <<fusionVars, bsmVars, vadmVars, simVars, runVars, orderVars, regVars>>

\* ------------------------------------------------------------------------
\* Bounds of the model
\* ------------------------------------------------------------------------
\* masses of the input BBAs are multiples of 1/MassUnits
MassUnits == 2
\* combinations folded into one accumulator
MaxFold == 2
\* credentials in one process call
MaxCreds == 2
\* outcomes one actor is observed for
MaxObs == 10
\* n_steps of a trajectory
MaxOuSteps == 2
\* register calls on one registry
MaxRegistered == 3
\* outcomes in one behavior_stream
MaxStream == 2
\* VADM.step calls for one actor
MaxVadmSteps == 3
\* the configured history window of the VADM instance under test
VadmWindow == 2
\* ChronosRepModel.N, the population
NAgents == 3
\* ChronosRepModel.step calls in one run
MaxTicks == 2
\* SleeperAgentScenario.N_ATTACKERS, scaled to the population
NSleeperAttackers == 2
\* seconds the wall clock of a run may advance
MaxClock == 1
\* n_credentials of a generate call
MaxGenerated == 2
\* ticks in which two VADM instances are stepped in opposite actor orders
MaxOrderTicks == 1
\* edge insertions and updates made through the engine's own interface
MaxEdgeUpdates == 3
\* ITE.tick calls made through the engine's own interface
MaxIteTicks == 2
\* ChronosRepModel.step calls in a run that lasts beyond the first recompute
MaxLongTicks == 11

\* ------------------------------------------------------------------------
\* Arithmetic helpers
\* ------------------------------------------------------------------------
Min(a, b) == IF a < b THEN a ELSE b
Max(a, b) == IF a > b THEN a ELSE b
Abs(a) == IF a < 0 THEN -a ELSE a

RECURSIVE Gcd(_, _)
Gcd(a, b) == IF b = 0 THEN a ELSE Gcd(b, a % b)

RECURSIVE SumF(_, _)
\* the sum of f[x] over x in S
SumF(f, S) ==
    IF S = {} THEN 0
    ELSE LET x == CHOOSE y \in S : TRUE IN f[x] + SumF(f, S \ {x})

RECURSIVE SumTo(_, _)
\* the sum of f[1], ..., f[n]
SumTo(f, n) == IF n = 0 THEN 0 ELSE f[n] + SumTo(f, n - 1)

RECURSIVE GcdF(_, _)
\* the gcd of f[x] over x in S
GcdF(f, S) ==
    IF S = {} THEN 0
    ELSE LET x == CHOOSE y \in S : TRUE IN Gcd(f[x], GcdF(f, S \ {x}))

RECURSIVE SumSeq(_)
SumSeq(s) == IF s = <<>> THEN 0 ELSE Head(s) + SumSeq(Tail(s))

RECURSIVE SumSqSeq(_)
SumSqSeq(s) == IF s = <<>> THEN 0 ELSE Head(s) * Head(s) + SumSqSeq(Tail(s))

RECURSIVE ISqrtIn(_, _, _)
\* the largest r in lo..hi with r * r <= n (lo * lo <= n is given)
ISqrtIn(n, lo, hi) ==
    IF lo >= hi THEN lo
    ELSE LET mid == (lo + hi + 1) \div 2
         IN IF mid * mid <= n THEN ISqrtIn(n, mid, hi) ELSE ISqrtIn(n, lo, mid - 1)

\* floor of the square root of n >= 0 (np.sqrt / np.std on fixed-point values)
ISqrt(n) == ISqrtIn(n, 0, Min(n, 46340))

\* a / b rounded toward zero, for b > 0
DivT(a, b) == IF a >= 0 THEN a \div b ELSE -((-a) \div b)

\* ------------------------------------------------------------------------
\* Logarithm (math.log2, np.log2) in fixed point
\* ------------------------------------------------------------------------
LScale == 1024
LOne == 4096

RECURSIVE Log2Int(_, _)
\* the largest e >= 0 with a * 2^e <= b, for 0 < a <= b
Log2Int(a, b) == IF 2 * a <= b THEN 1 + Log2Int(2 * a, b) ELSE 0

RECURSIVE Pow2(_)
Pow2(e) == IF e = 0 THEN 1 ELSE 2 * Pow2(e - 1)

RECURSIVE Log2Frac(_, _)
\* `bits` fractional bits of log2(y / LOne), y in [LOne, 2 * LOne), by repeated squaring
Log2Frac(y, bits) ==
    IF bits = 0 THEN 0
    ELSE LET sq == (y * y) \div LOne
         IN IF sq >= 2 * LOne
            THEN Pow2(bits - 1) + Log2Frac(sq \div 2, bits - 1)
            ELSE Log2Frac(sq, bits - 1)

\* log2(b / a) for 0 < a <= b, in units of 1/LScale
Log2Ratio(a, b) ==
    LET e == Log2Int(a, b)
        y == (b * LOne) \div (a * Pow2(e))
    IN e * LScale + Log2Frac(y, 10)

\* ------------------------------------------------------------------------
\* Frame of discernment and mass assignments
\* ------------------------------------------------------------------------
FRAME == {"trusted", "untrusted", "unknown"}
S_TR  == {"trusted"}
S_UN  == {"untrusted"}
S_UK  == {"unknown"}
EMPTY == {}

\* _SUBSETS = _powerset(_FRAME): the 7 non-empty subsets, by size
SubsetSeq ==
    <<{"trusted"}, {"untrusted"}, {"unknown"},
      {"trusted", "untrusted"}, {"trusted", "unknown"}, {"untrusted", "unknown"},
      {"trusted", "untrusted", "unknown"}>>

NSub == Len(SubsetSeq)

SUBSETS == {SubsetSeq[i] : i \in 1..NSub}

\* m.get(A, 0.0), as a numerator over b.d
Mass(b, A) == IF A \in DOMAIN b.m THEN b.m[A] ELSE 0

\* the sum of all masses of a BBA, as a numerator over b.d
TotalMass(b) == SumF(b.m, DOMAIN b.m)

\* the same rational masses over the smallest common denominator
Reduce(b) ==
    LET g == Gcd(b.d, GcdF(b.m, DOMAIN b.m))
    IN [m |-> [A \in DOMAIN b.m |-> b.m[A] \div g], d |-> b.d \div g]

\* {_FRAME: 1.0}
Vacuous == [m |-> [A \in {FRAME} |-> 1], d |-> 1]

\* a plausible slip: each conflicting pair of hypotheses is counted once
ConflictSumOnce(m1, m2) ==
    SumTo([i \in 1..NSub |->
             SumTo([j \in 1..NSub |->
                      IF i < j /\ SubsetSeq[i] \cap SubsetSeq[j] = EMPTY
                      THEN Mass(m1, SubsetSeq[i]) * Mass(m2, SubsetSeq[j]) ELSE 0],
                   NSub)],
          NSub)

\* K before the cap, as a numerator over m1.d * m2.d
ConflictSum(m1, m2) ==
    SumTo([i \in 1..NSub |->
             SumTo([j \in 1..NSub |->
                      IF SubsetSeq[i] \cap SubsetSeq[j] = EMPTY
                      THEN Mass(m1, SubsetSeq[i]) * Mass(m2, SubsetSeq[j]) ELSE 0],
                   NSub)],
          NSub)

\* _conflict_coeff: min(K, 1.0) as the rational n / d
ConflictCoeff(m1, m2) ==
    [n |-> Min(ConflictSum(m1, m2), m1.d * m2.d), d |-> m1.d * m2.d]

\* the unnormalised combined mass of hypothesis A, over m1.d * m2.d
JointMass(m1, m2, A) ==
    SumTo([i \in 1..NSub |->
             SumTo([j \in 1..NSub |->
                      IF SubsetSeq[i] \cap SubsetSeq[j] = A
                      THEN Mass(m1, SubsetSeq[i]) * Mass(m2, SubsetSeq[j]) ELSE 0],
                   NSub)],
          NSub)

\* the unnormalised combined masses of all hypotheses
JointMasses(m1, m2) == [A \in SUBSETS |-> JointMass(m1, m2, A)]

\* the dict `fused`: the hypotheses of positive joint mass, over denominator d
FusedOver(joint, d) ==
    Reduce([m |-> [A \in {B \in SUBSETS : joint[B] > 0} |-> joint[A]], d |-> d])

\* a plausible slip: the fallback tests K > 1.0, so K = 1 divides by zero
CombineStrictFallback(m1, m2) ==
    LET K == ConflictCoeff(m1, m2)
    IN IF K.n > K.d THEN Vacuous
       ELSE IF K.d - K.n = 0 THEN [m |-> <<>>, d |-> 0, raised |-> "ZeroDivisionError"]
       ELSE FusedOver(JointMasses(m1, m2), K.d - K.n)

\* a plausible slip: the combined masses are not divided by 1 - K
CombineNoNorm(m1, m2) ==
    LET K == ConflictCoeff(m1, m2)
    IN IF K.n >= K.d THEN Vacuous
       ELSE FusedOver(JointMasses(m1, m2), K.d)

\* _chronosrep_combine
Combine(m1, m2) ==
    LET K == ConflictCoeff(m1, m2)
    IN IF K.n >= K.d THEN Vacuous
       ELSE FusedOver(JointMasses(m1, m2), K.d - K.n)

\* the mass _condition_bba moves onto B: that of the hypotheses whose
\* intersection with cond is B, as a numerator over b.d
MovedOnto(b, cond, B) ==
    SumTo([i \in 1..NSub |-> IF SubsetSeq[i] \cap cond = B
                              THEN Mass(b, SubsetSeq[i]) ELSE 0], NSub)

\* a plausible slip: the conditioned masses are not divided by their total
ConditionBBANoRenorm(b, cond) ==
    IF cond = EMPTY THEN b
    ELSE LET keys == {A \cap cond : A \in SUBSETS} \ {EMPTY}
             conditioned == [B \in keys |-> MovedOnto(b, cond, B)]
             total == SumF(conditioned, keys)
         IN IF total = 0 THEN Vacuous
            ELSE Reduce([m |-> conditioned, d |-> b.d])

\* _condition_bba: a key for every non-empty intersection, masses over their total
ConditionBBA(b, cond) ==
    IF cond = EMPTY THEN b
    ELSE LET keys == {A \cap cond : A \in SUBSETS} \ {EMPTY}
             conditioned == [B \in keys |-> MovedOnto(b, cond, B)]
             total == SumF(conditioned, keys)
         IN IF total = 0 THEN Vacuous
            ELSE Reduce([m |-> conditioned, d |-> total])

\* _downweight_bba with w = wn / wd: keys of the input only
Downweight(b, wn, wd) ==
    Reduce([m |-> [A \in DOMAIN b.m |->
                     b.m[A] * wn + (IF A = FRAME THEN (wd - wn) * b.d ELSE 0)],
            d |-> b.d * wd])

\* _belief, as a numerator over b.d
Belief(b, hyp) ==
    SumF([A \in DOMAIN b.m |-> IF A # EMPTY /\ A \subseteq hyp THEN b.m[A] ELSE 0],
         DOMAIN b.m)

\* a plausible slip in _plausibility: only the hypotheses that contain hyp are counted
PlausibilityContaining(b, hyp) ==
    SumF([A \in DOMAIN b.m |-> IF hyp \subseteq A THEN b.m[A] ELSE 0],
         DOMAIN b.m)

\* _plausibility, as a numerator over b.d
Plausibility(b, hyp) ==
    SumF([A \in DOMAIN b.m |-> IF A \cap hyp # EMPTY THEN b.m[A] ELSE 0],
         DOMAIN b.m)

\* _pignistic_transform for one label, as a numerator over 6 * b.d
Pignistic(b, elem) ==
    SumF([A \in DOMAIN b.m |->
            IF Cardinality(A) # 0 /\ elem \in A THEN b.m[A] * (6 \div Cardinality(A)) ELSE 0],
         DOMAIN b.m)

\* ------------------------------------------------------------------------
\* IRV_PE.process
\* ------------------------------------------------------------------------
\* resolution of the credential weights
WScale == 100

\* weights multiply in fixed point
WMul(a, b) == (a * b) \div WScale

\* _VC_TYPE_WEIGHT.get(vc_type, 0.7)
VcTypeWeight(t) ==
    CASE t = "KYC" -> 100
      [] t = "DID_DOC" -> 85
      [] t = "BEHAVIORAL" -> 90
      [] t = "DELEGATED" -> 70
      [] t = "GOVERNANCE" -> 75
      [] OTHER -> 70

\* _TIER_DISCOUNT.get(issuer_tier, 0.7)
TierDiscount(t) ==
    CASE t = "ROOT_CA" -> 100
      [] t = "INTERMEDIATE_CA" -> 90
      [] t = "LEAF_ISSUER" -> 75
      [] OTHER -> 70

\* _CHAIN_DEPTH_PENALTY = 0.05
CHAIN_DEPTH_PENALTY == 5

\* IRV_PE.__init__ defaults: eta = 2.5 (in 1/LScale), revocation_penalty = 0.10
Eta == 2560
RevocationPenalty == 10

\* _effective_weight
EffectiveWeight(vc) ==
    LET depth_p == Max(0, WScale - vc.chain_depth * CHAIN_DEPTH_PENALTY)
    IN WMul(WMul(WMul(vc.issuer_trust, VcTypeWeight(vc.vc_type)),
                 TierDiscount(vc.issuer_tier)), depth_p)

\* _belief_entropy, in units of 1/LScale
BeliefEntropy(b) ==
    SumF([A \in DOMAIN b.m |->
            IF b.m[A] <= 0 \/ Pow2(Cardinality(A)) - 1 <= 0 THEN 0
            ELSE b.m[A] * Log2Ratio(b.m[A], b.d * (Pow2(Cardinality(A)) - 1))],
         DOMAIN b.m) \div b.d

\* the weight process gives one credential, clamped to [0.01, 1.0]
ClampedWeight(vc) ==
    LET h  == BeliefEntropy(vc.bba)
        w0 == EffectiveWeight(vc)
        w1 == IF vc.revoked THEN WMul(w0, WScale - RevocationPenalty) ELSE w0
        w2 == IF h > Eta THEN (w1 * Eta) \div h ELSE w1
    IN Max(1, Min(w2, WScale))

\* the body of the loop over `active`: the BBA appended to bbas
WeightedBBA(vc) ==
    LET w == ClampedWeight(vc)
    IN IF w < WScale THEN Downweight(vc.bba, w, WScale) ELSE vc.bba

RECURSIVE FoldCombine(_, _)
\* for nxt in bbas[1:]: fused = _chronosrep_combine(fused, nxt)
FoldCombine(fused, rest) ==
    IF rest = <<>> THEN fused
    ELSE FoldCombine(Combine(fused, Head(rest)), Tail(rest))

\* a rational in lowest terms
Rat(n, d) == LET g == Gcd(Abs(n), d) IN [n |-> n \div g, d |-> d \div g]

\* np.clip(v, 0.0, 1.0) on a rational
Clip01(r) ==
    IF r.n < 0 THEN Rat(0, 1) ELSE IF r.n > r.d THEN Rat(1, 1) ELSE r

\* np.zeros(5)
ZeroIRV == [i \in 1..5 |-> Rat(0, 1)]

NotRevoked(vc) == ~vc.revoked

\* a plausible slip: the working set is every supplied credential
ActiveCredsAll(credentials) == credentials

\* the working set: non-revoked credentials, or all of them when none is
ActiveCreds(credentials) ==
    LET active == SelectSeq(credentials, NotRevoked)
    IN IF active = <<>> THEN credentials ELSE active

\* the five scalars of the fused BBA, clipped
IRVOf(fused) ==
    <<Clip01(Rat(Belief(fused, S_TR), fused.d)),
      Clip01(Rat(Belief(fused, S_UN), fused.d)),
      Clip01(Rat(Belief(fused, S_UK), fused.d)),
      Clip01(Rat(Plausibility(fused, S_TR), fused.d)),
      Clip01(Rat(Pignistic(fused, "trusted"), 6 * fused.d))>>

\* a plausible slip: no guard for an empty working set, so bbas[0] raises
ProcessNoEmptyGuard(credentials) ==
    LET active == ActiveCreds(credentials)
        bbas == [i \in 1..Len(active) |-> WeightedBBA(active[i])]
    IN IF bbas = <<>> THEN <<"IndexError">>
       ELSE IRVOf(FoldCombine(Head(bbas), Tail(bbas)))

\* IRV_PE.process
Process(credentials) ==
    LET active == ActiveCreds(credentials)
        bbas == [i \in 1..Len(active) |-> WeightedBBA(active[i])]
    IN IF bbas = <<>> THEN ZeroIRV
       ELSE IRVOf(FoldCombine(Head(bbas), Tail(bbas)))

\* ------------------------------------------------------------------------
\* Inputs of the fusion engine
\* ------------------------------------------------------------------------
\* a dict holding the positive entries of f, over denominator MassUnits
AsBBA(f) ==
    Reduce([m |-> [A \in {SubsetSeq[i] : i \in {j \in 1..NSub : f[j] > 0}} |->
                     f[CHOOSE i \in 1..NSub : SubsetSeq[i] = A]],
            d |-> MassUnits])

\* every mass assignment over the 7 hypotheses in multiples of 1/MassUnits, summing to 1
InputBBAs ==
    {AsBBA(f) : f \in {g \in [1..NSub -> 0..MassUnits] : SumTo(g, NSub) = MassUnits}}

\* m1 = {{trusted}: 0.6, {unknown}: 0.1, frame: 0.3}, in tenths
TenthsExample ==
    [m |-> [A \in {S_TR, S_UK, FRAME} |-> IF A = S_TR THEN 6 ELSE IF A = S_UK THEN 1 ELSE 3],
     d |-> 10]

\* the assignments the fold is run on
FoldInputs == InputBBAs \cup {TenthsExample}

\* weights handed to the discount, in 1/WScale: 0.01, 0.5, 0.99
DiscountWeights == {1, WScale \div 2, WScale - 1}

\* BBAs attached to credentials: mass on {trusted}, {untrusted} and the frame
CredBBAs == {b \in InputBBAs : DOMAIN b.m \subseteq {S_TR, S_UN, FRAME}}

Credentials ==
    [vc_type : {"KYC", "REVOCATION_LIST"},
     issuer_tier : {"ROOT_CA"},
     issuer_trust : {40, WScale},
     revoked : BOOLEAN,
     bba : CredBBAs,
     chain_depth : {0, 25}]

\* ------------------------------------------------------------------------
\* The fusion engine as a state machine
\* ------------------------------------------------------------------------
InitFusion ==
    /\ acc = Vacuous
    /\ lastM1 = Vacuous
    /\ lastM2 = Vacuous
    /\ lastW = WScale
    /\ lastOp = "none"
    /\ nFold = 0
    /\ credsIn = <<>>
    /\ condition_set = EMPTY
    /\ irvOut = ZeroIRV

\* fused = bbas[0]
StartFold(b) ==
    /\ lastOp = "none"
    /\ acc' = b
    /\ lastM1' = b
    /\ lastM2' = Vacuous
    /\ lastW' = WScale
    /\ lastOp' = "start"
    /\ nFold' = 0
    /\ UNCHANGED <<credsIn, condition_set, irvOut>>

\* fused = _chronosrep_combine(fused, nxt)
FuseNext(b) ==
    /\ lastOp \in {"start", "combine", "downweight"}
    /\ nFold < MaxFold
    /\ acc' = Combine(acc, b)
    /\ lastM1' = acc
    /\ lastM2' = b
    /\ lastW' = WScale
    /\ lastOp' = "combine"
    /\ nFold' = nFold + 1
    /\ UNCHANGED <<credsIn, condition_set, irvOut>>

\* bba = _downweight_bba(bba, w), the discounted BBA starting a fold
Discount(b, w) ==
    /\ lastOp = "none"
    /\ acc' = Downweight(b, w, WScale)
    /\ lastM1' = b
    /\ lastM2' = Vacuous
    /\ lastW' = w
    /\ lastOp' = "downweight"
    /\ nFold' = 0
    /\ UNCHANGED <<credsIn, condition_set, irvOut>>

\* _condition_bba(bba, condition_set)
ConditionCall(b, cond) ==
    /\ lastOp = "none"
    /\ acc' = ConditionBBA(b, cond)
    /\ lastM1' = b
    /\ lastM2' = Vacuous
    /\ lastW' = WScale
    /\ lastOp' = "condition"
    /\ nFold' = 0
    /\ condition_set' = cond
    /\ UNCHANGED <<credsIn, irvOut>>

\* irv = IRV_PE.process(agent_id, credentials)
ProcessCall(creds) ==
    /\ lastOp = "none"
    /\ credsIn' = creds
    /\ irvOut' = Process(creds)
    /\ lastOp' = "process"
    /\ UNCHANGED <<acc, lastM1, lastM2, lastW, nFold, condition_set>>

\* ------------------------------------------------------------------------
\* Behavioural surveillance monitor (bsm.py)
\* ------------------------------------------------------------------------
\* resolution of z-scores and CUSUM accumulators
ZScale == 1000

\* _CUSUM_H = 4.0, _CUSUM_K = 0.5, in 1/ZScale
CUSUM_H == 4000
CUSUM_K == 500
ZSCORE_WIN == 30

\* the actors the monitor is called for
BsmAgents == {1}

\* BSM(cusum_h, cusum_k): the default instance and one with a lower control limit
BsmConfigs == {[h |-> CUSUM_H, k |-> CUSUM_K], [h |-> CUSUM_H \div 2, k |-> CUSUM_K]}

\* _StreamState()
NewStreamState ==
    [window |-> <<>>, cusum_pos |-> 0, cusum_neg |-> 0, alarm_count |-> 0,
     last_entropy |-> 0, t |-> 0]

\* deque(maxlen=_ZSCORE_WIN).append
WindowAppend(window, v) ==
    IF Len(window) >= ZSCORE_WIN THEN Append(Tail(window), v) ELSE Append(window, v)

\* arr.std() of the window, in 1/ZScale
WindowStd(window) ==
    LET n == Len(window)
    IN ISqrt((n * SumSqSeq(window) - SumSeq(window) * SumSeq(window)) * ZScale * ZScale) \div n

\* _zscore_normalize, in 1/ZScale; a sigma below _ENTROPY_EPS is one below the resolution
ZscoreNormalize(value, window) ==
    IF Len(window) < 2 THEN 0
    ELSE LET n == Len(window)
             sigma == WindowStd(window)
         IN IF sigma < 1 THEN 0
            ELSE DivT((value * n - SumSeq(window)) * ZScale * ZScale, n * sigma)

\* a plausible slip: the slack k is added to the accumulators, not subtracted
CusumUpdateAddSlack(z, s_pos, s_neg, k) ==
    LET p == Max(0, s_pos + z + k)
        n == Max(0, s_neg - z + k)
        alarm == (p > CUSUM_H) \/ (n > CUSUM_H)
    IN [pos |-> IF alarm THEN 0 ELSE p, neg |-> IF alarm THEN 0 ELSE n, alarm |-> alarm]

\* _cusum_update: the limit is the module constant _CUSUM_H
CusumUpdate(z, s_pos, s_neg, k) ==
    LET p == Max(0, s_pos + z - k)
        n == Max(0, s_neg - z - k)
        alarm == (p > CUSUM_H) \/ (n > CUSUM_H)
    IN [pos |-> IF alarm THEN 0 ELSE p, neg |-> IF alarm THEN 0 ELSE n, alarm |-> alarm]

\* the body of the loop of BSM.monitor: the stream state and `alarms` after one outcome
Observe(cfg, s, alarms, outcome) ==
    LET w  == WindowAppend(s.window, outcome)
        z  == ZscoreNormalize(outcome, w)
        cu == CusumUpdate(z, s.cusum_pos, s.cusum_neg, cfg.k)
    IN [s |-> [s EXCEPT !.window = w,
                        !.cusum_pos = cu.pos,
                        !.cusum_neg = cu.neg,
                        !.alarm_count = IF cu.alarm THEN @ + 1 ELSE @,
                        !.t = @ + 1],
        alarms |-> IF cu.alarm THEN Append(alarms, s.t) ELSE alarms]

RECURSIVE ObserveAll(_, _, _, _)
\* the whole loop of BSM.monitor
ObserveAll(cfg, s, alarms, stream) ==
    IF stream = <<>> THEN [s |-> s, alarms |-> alarms]
    ELSE LET r == Observe(cfg, s, alarms, Head(stream))
         IN ObserveAll(cfg, r.s, r.alarms, Tail(stream))

\* _shannon_entropy(_outcome_distribution(window)), in 1/LScale
WindowEntropy(window) ==
    LET n  == Len(window)
        c1 == SumSeq(window)
        c0 == n - c1
        term(c) == IF c > 0 THEN c * Log2Ratio(c, n) ELSE 0
    IN IF n = 0 THEN LScale ELSE (term(c0) + term(c1)) \div n

\* s.last_entropy = h
WithEntropy(s) == [s EXCEPT !.last_entropy = WindowEntropy(s.window)]

\* a plausible slip: the score counts the alarms of this call only
MonitorResultCallAlarms(a, s, alarms) ==
    [agent_id      |-> a,
     mean_outcome  |-> IF Len(s.window) > 0 THEN Rat(SumSeq(s.window), Len(s.window))
                       ELSE Rat(1, 2),
     entropy       |-> WindowEntropy(s.window),
     anomaly_score |-> Rat(Len(alarms), Max(s.t, 1)),
     alarm_steps   |-> alarms,
     cusum_pos     |-> s.cusum_pos,
     cusum_neg     |-> s.cusum_neg,
     t             |-> s.t]

\* the dict BSM.monitor returns, once the loop has ended in state s
MonitorResult(a, s, alarms) ==
    [agent_id      |-> a,
     mean_outcome  |-> IF Len(s.window) > 0 THEN Rat(SumSeq(s.window), Len(s.window))
                       ELSE Rat(1, 2),
     entropy       |-> WindowEntropy(s.window),
     anomaly_score |-> Rat(s.alarm_count, Max(s.t, 1)),
     alarm_steps   |-> alarms,
     cusum_pos     |-> s.cusum_pos,
     cusum_neg     |-> s.cusum_neg,
     t             |-> s.t]

\* BSM.anomaly_score
AnomalyScore(states, a) ==
    IF a \notin DOMAIN states \/ states[a].t = 0 THEN Rat(0, 1)
    ELSE Rat(states[a].alarm_count, states[a].t)

\* BSM._ensure
BsmEnsure(states, a) ==
    IF a \in DOMAIN states THEN states ELSE (a :> NewStreamState) @@ states

Streams == UNION {[1..n -> {0, 1}] : n \in 0..MaxStream}

NoResult == [agent_id |-> 0]

InitBsm ==
    /\ bsm_states = <<>>
    /\ bsm_pc = "idle"
    /\ bsm_agent = 0
    /\ bsm_stream = <<>>
    /\ bsm_alarms = <<>>
    /\ bsm_result = NoResult

\* BSM.monitor up to its loop: s = self._ensure(agent_id); alarms = []
MonitorCall(a, stream) ==
    /\ bsm_pc = "idle"
    /\ (IF a \in DOMAIN bsm_states THEN bsm_states[a].t ELSE 0) + Len(stream) <= MaxObs
    /\ bsm_states' = BsmEnsure(bsm_states, a)
    /\ bsm_agent' = a
    /\ bsm_stream' = stream
    /\ bsm_alarms' = <<>>
    /\ bsm_pc' = "loop"
    /\ UNCHANGED <<bsm_cfg, bsm_result>>

\* one iteration of `for outcome in behavior_stream`
MonitorObserve ==
    /\ bsm_pc = "loop"
    /\ bsm_stream # <<>>
    /\ \E r \in {Observe(bsm_cfg, bsm_states[bsm_agent], bsm_alarms, Head(bsm_stream))} :
          /\ bsm_states' = [bsm_states EXCEPT ![bsm_agent] = r.s]
          /\ bsm_alarms' = r.alarms
    /\ bsm_stream' = Tail(bsm_stream)
    /\ UNCHANGED <<bsm_cfg, bsm_pc, bsm_agent, bsm_result>>

\* BSM.monitor after its loop: entropy, anomaly score, the returned dict
MonitorReturn ==
    /\ bsm_pc = "loop"
    /\ bsm_stream = <<>>
    /\ \E s \in {WithEntropy(bsm_states[bsm_agent])} :
          /\ bsm_states' = [bsm_states EXCEPT ![bsm_agent] = s]
          /\ bsm_result' = MonitorResult(bsm_agent, s, bsm_alarms)
    /\ bsm_pc' = "idle"
    /\ UNCHANGED <<bsm_cfg, bsm_agent, bsm_stream, bsm_alarms>>

\* ------------------------------------------------------------------------
\* Volatility-adjusted dynamics (vadm.py)
\* ------------------------------------------------------------------------
\* resolution of reputations, sigma, jumps and normal draws; of theta; of alpha
XScale == 1000
TScale == 10000
AScale == 100

\* _GAMMA_THRESHOLD = 3.0, _X_LO = 0.0, _X_HI = 1.0, in 1/XScale
GAMMA_THRESHOLD == 3000
X_LO == 0
X_HI == 1000

\* the clip bounds of theta, 1e-4 and 10.0, in 1/TScale
THETA_LO == 1
THETA_HI == 100000

\* np.clip
Clip(v, lo, hi) == IF v < lo THEN lo ELSE IF v > hi THEN hi ELSE v

\* VADM(): dt=1.0, theta_0=0.30, sigma=0.03, jump_scale=0.35, alpha=0.05, window=20
DefaultVadmCfg ==
    [dt |-> 1, theta_0 |-> 3000, sigma |-> 30, jump_scale |-> 350, alpha |-> 5, window |-> 20]

\* the instances under test: a short window, and with it a full adaptation rate
VadmConfigs ==
    {[DefaultVadmCfg EXCEPT !.window = VadmWindow],
     [DefaultVadmCfg EXCEPT !.window = VadmWindow, !.alpha = AScale]}

\* np.sqrt(2.0 * theta), in 1/XScale
Sqrt2Theta(theta) == ISqrt(2 * theta * ((XScale * XScale) \div TScale))

\* _noise_floor: sigma / max(sqrt(2 theta), 1e-8)
NoiseFloor(sigma, theta) == (sigma * XScale) \div Max(Sqrt2Theta(theta), 1)

\* _gamma_ratio
GammaRatio(epsilon, sigma, theta) ==
    LET nf == NoiseFloor(sigma, theta)
    IN IF nf > 0 THEN (Abs(epsilon) * XScale) \div nf ELSE 0

\* a plausible slip: the adapted theta is not clipped
UpdateThetaNoClip(theta, epsilon, alpha, dt) ==
    theta + DivT(alpha * (epsilon * (TScale \div XScale) - theta * dt), AScale)

\* _update_theta
UpdateTheta(theta, epsilon, alpha, dt) ==
    LET grad == epsilon * (TScale \div XScale) - theta * dt
    IN Clip(theta + DivT(alpha * grad, AScale), THETA_LO, THETA_HI)

\* the jump of _euler_maruyama; z2 is the draw of rng.normal(0, jump_scale) /
\* jump_scale, in 1/XScale
Jump(x, mu, z2, jump_scale, gamma) ==
    LET direction == IF x > mu THEN -1 ELSE 1
    IN IF gamma > GAMMA_THRESHOLD
       THEN direction * Abs(DivT(z2 * jump_scale, XScale))
       ELSE 0

\* _euler_maruyama; z1 is the draw of rng.standard_normal(), in 1/XScale
EulerMaruyama(x, mu, theta, sigma, dt, z1, z2, jump_scale, gamma) ==
    LET drift == DivT(theta * (mu - x) * dt, TScale)
        diffusion == DivT(DivT(sigma * z1, XScale) * ISqrt(dt * XScale * XScale), XScale)
        jump == Jump(x, mu, z2, jump_scale, gamma)
    IN Clip(x + drift + diffusion + jump, X_LO, X_HI)

\* deque(maxlen=window).append
HistoryAppend(history, x, window) ==
    IF Len(history) >= window THEN Append(Tail(history), x) ELSE Append(history, x)

\* np.std(history), in 1/XScale
HistoryStd(history) ==
    LET n == Len(history)
    IN ISqrt(n * SumSqSeq(history) - SumSeq(history) * SumSeq(history)) \div n

\* VADM._init
VadmInit(cfg, mu) ==
    [x |-> Clip(mu, X_LO, X_HI), theta |-> cfg.theta_0, history |-> <<>>, t |-> 0]

\* VADM.step: the new state table and the returned pair
VadmStep(cfg, states, a, irv_0, r_static, z1, z2) ==
    LET mu      == Clip(irv_0, X_LO, X_HI)
        s       == IF a \in DOMAIN states THEN states[a] ELSE VadmInit(cfg, mu)
        epsilon == Abs(r_static - s.x)
        gamma   == GammaRatio(epsilon, cfg.sigma, s.theta)
        theta   == UpdateTheta(s.theta, epsilon, cfg.alpha, cfg.dt)
        x       == EulerMaruyama(s.x, mu, theta, cfg.sigma, cfg.dt, z1, z2,
                                 cfg.jump_scale, gamma)
        history == HistoryAppend(s.history, x, cfg.window)
        s2      == [x |-> x, theta |-> theta, history |-> history, t |-> s.t + 1]
    IN [states  |-> (a :> s2) @@ states,
        x       |-> x,
        sigma_w |-> IF Len(history) > 1 THEN HistoryStd(history) ELSE 0,
        mu      |-> mu,
        x0      |-> s.x,
        gamma   |-> gamma,
        jump    |-> Jump(s.x, mu, z2, cfg.jump_scale, gamma)]

\* the actors the dynamics are stepped for
VadmAgents == {1}

\* irv[0], r_static and the two normal draws handed to a step
IrvInputs    == {-500, 600, 1500}
StaticInputs == {0, 600, 300000}
NormalDraws  == {-2000, 0, 2000}
JumpDraws    == {0, 2000}

NoReturn == [agent |-> 0, x |-> 0, sigma_w |-> 0, mu |-> 0, x0 |-> 0, gamma |-> 0, jump |-> 0]

\* no trajectory has been generated by the last call
NoTrajectory == [x0 |-> 0, mu |-> 0, n_steps |-> 0, traj |-> <<>>]

InitVadm ==
    /\ vadm_states = <<>>
    /\ vadm_ret = NoReturn
    /\ ou_traj = NoTrajectory

\* reputation, volatility = vadm.step(agent_id, irv, r_static)
VadmStepCall(a, irv_0, r_static, z1, z2) ==
    /\ (IF a \in DOMAIN vadm_states THEN vadm_states[a].t ELSE 0) < MaxVadmSteps
    /\ \E r \in {VadmStep(vadm_cfg, vadm_states, a, irv_0, r_static, z1, z2)} :
          /\ vadm_states' = r.states
          /\ vadm_ret' = [agent |-> a, x |-> r.x, sigma_w |-> r.sigma_w, mu |-> r.mu,
                          x0 |-> r.x0, gamma |-> r.gamma, jump |-> r.jump]
    /\ ou_traj' = NoTrajectory
    /\ UNCHANGED vadm_cfg

\* one iteration of the loop of step_ou_only: drift, diffusion, clip
OuStep(cfg, x, mu, theta, z) ==
    LET drift == DivT(theta * (mu - x) * cfg.dt, TScale)
        diff  == DivT(DivT(cfg.sigma * z, XScale) * ISqrt(cfg.dt * XScale * XScale), XScale)
    IN Clip(x + drift + diff, X_LO, X_HI)

RECURSIVE OuExtend(_, _, _, _, _)
\* the loop of step_ou_only from the trajectory so far, one draw per step
OuExtend(cfg, traj, mu, theta, draws) ==
    IF draws = <<>> THEN traj
    ELSE OuExtend(cfg, Append(traj, OuStep(cfg, traj[Len(traj)], mu, theta, Head(draws))),
                  mu, theta, Tail(draws))

\* VADM.step_ou_only(x0, mu, theta, n_steps), with n_steps = Len(draws)
StepOuOnly(cfg, x0, mu, theta, draws) == OuExtend(cfg, <<x0>>, mu, theta, draws)

\* traj = vadm.step_ou_only(x0, mu, theta, n_steps)
StepOuOnlyCall(x0, mu, theta, draws) ==
    /\ ou_traj' = [x0 |-> x0, mu |-> mu, n_steps |-> Len(draws),
                   traj |-> StepOuOnly(vadm_cfg, x0, mu, theta, draws)]
    /\ vadm_ret' = NoReturn
    /\ UNCHANGED <<vadm_cfg, vadm_states>>

\* what np.random.default_rng(seed) may yield: the stream of standard normal
\* draws of one seed, in 1/XScale, long enough for two draws per step
NormalStreams == [1..(4 * MaxOrderTicks) -> {-1000, 0, 1000}]

\* VADM.step drawing from self._rng: eng holds _states, the stream of the seed and
\* the position in it; the diffusion draw comes first, the jump draw only when
\* gamma exceeds the threshold
VadmStepSeeded(cfg, eng, a, irv_0, r_static) ==
    LET r == VadmStep(cfg, eng.states, a, irv_0, r_static,
                      eng.stream[eng.pos], eng.stream[eng.pos + 1])
    IN [eng |-> [eng EXCEPT !.states = r.states,
                            !.pos = IF r.gamma > GAMMA_THRESHOLD THEN @ + 2 ELSE @ + 1],
        ret |-> <<r.x, r.sigma_w>>]

\* the steps of actors a and b in one tick, a first: the instance afterwards and
\* the pair each actor got back
StepInOrder(cfg, eng, a, b, in_a, in_b) ==
    LET ra == VadmStepSeeded(cfg, eng, a, in_a[1], in_a[2])
        rb == VadmStepSeeded(cfg, ra.eng, b, in_b[1], in_b[2])
    IN [eng |-> rb.eng, ret |-> (a :> ra.ret) @@ (b :> rb.ret)]

\* two VADM instances of the same seed, not stepped
InitOrder ==
    \E stream \in NormalStreams :
       /\ order_vadm = [o \in 1..2 |-> [states |-> <<>>, stream |-> stream, pos |-> 1]]
       /\ order_ret = [o \in 1..2 |-> <<>>]

\* one tick in which the schedule steps a before b in the first run and b before
\* a in the second, each actor with the same irv[0] and r_static in both
StepBothOrders(a, b, in_a, in_b) ==
    /\ a # b
    /\ order_vadm[1].pos + 4 <= 4 * MaxOrderTicks + 1
    /\ order_vadm[2].pos + 4 <= 4 * MaxOrderTicks + 1
    /\ \E r1 \in {StepInOrder(vadm_cfg, order_vadm[1], a, b, in_a, in_b)},
          r2 \in {StepInOrder(vadm_cfg, order_vadm[2], b, a, in_b, in_a)} :
          /\ order_vadm' = <<r1.eng, r2.eng>>
          /\ order_ret' = <<r1.ret, r2.ret>>

\* ------------------------------------------------------------------------
\* Interaction and community engine (ite.py)
\* ------------------------------------------------------------------------
Agents == 1..NAgents
Pairs  == Agents \X Agents

\* ITE(): k_interactions=3, recompute_interval=10; _BETA, _GAMMA and the suspect
\* thresholds _SUSPECT_DIN, _SUSPECT_EXTER in 1/XScale
K_INTERACTIONS == 3
RECOMPUTE_INTERVAL == 10
BETA == 500
GAMMA == 500
SUSPECT_DIN == 600
SUSPECT_EXTER == 200

\* ITE(): the constructor arguments the engine keeps
DefaultIteCfg ==
    [beta |-> BETA, gamma |-> GAMMA, recompute_interval |-> RECOMPUTE_INTERVAL,
     k_interactions |-> K_INTERACTIONS]

\* the graph and the neighbour sets as one value
GraphNow == [nodes |-> nodes, weight |-> weight, last |-> last, nbrs |-> nbrs]

\* ITE._ensure
EnsureNodes(g, ids) == [g EXCEPT !.nodes = @ \cup ids]

\* a plausible slip: only the source's neighbour set is updated
AddEdgeOneWay(g, u, v, outcome) ==
    [g EXCEPT !.nodes = @ \cup {u, v},
              !.weight[<<u, v>>] = @ + 1,
              !.last[<<u, v>>] = outcome,
              !.nbrs[u] = @ \cup {v}]

\* ITE._add_edge
AddEdge(g, u, v, outcome) ==
    [g EXCEPT !.nodes = @ \cup {u, v},
              !.weight[<<u, v>>] = @ + 1,
              !.last[<<u, v>>] = outcome,
              !.nbrs = [x \in Agents |->
                          IF x = u /\ x = v THEN @[x] \cup {u}
                          ELSE IF x = u THEN @[x] \cup {v}
                          ELSE IF x = v THEN @[x] \cup {u}
                          ELSE @[x]]]

RECURSIVE AddEdges(_, _, _)
\* the loop of generate_interactions: _add_edge(agent_id, t, outcome) per sampled target
AddEdges(g, u, pairs) ==
    IF pairs = <<>> THEN g
    ELSE AddEdges(AddEdge(g, u, Head(pairs)[1], Head(pairs)[2]), u, Tail(pairs))

RECURSIVE ForceAll(_, _)
\* force_interaction(u, v, outcome) for every <<u, v, outcome>> of a set of distinct edges
ForceAll(g, edges) ==
    IF edges = {} THEN g
    ELSE LET e == CHOOSE x \in edges : TRUE
         IN ForceAll(AddEdge(EnsureNodes(g, {e[1], e[2]}), e[1], e[2], e[3]), edges \ {e})

RECURSIVE Ascending(_)
\* the members of a set of ids as a sequence, lowest first
Ascending(S) ==
    IF S = {} THEN <<>>
    ELSE LET lo == CHOOSE x \in S : \A y \in S : x <= y
         IN <<lo>> \o Ascending(S \ {lo})

\* a plausible slip: the actor itself is left among the candidates
InteractionChoicesWithSelf(a, all_ids) ==
    LET candidates == all_ids
        n == Min(ite_cfg.k_interactions, Cardinality(candidates))
    IN UNION {LET ts == Ascending(T)
              IN {[i \in 1..n |-> <<ts[i], o[i]>>] : o \in [1..n -> sim_cfg.randint]} :
                 T \in {U \in SUBSET candidates : Cardinality(U) = n}}

\* what rng.sample and rng.randint may yield in generate_interactions: any
\* min(k, len(candidates)) distinct candidates, visited lowest id first, each
\* with outcome 0 or 1, as the sequence of (target, outcome)
InteractionChoices(a, all_ids) ==
    LET candidates == all_ids \ {a}
        n == Min(ite_cfg.k_interactions, Cardinality(candidates))
    IN UNION {LET ts == Ascending(T)
              IN {[i \in 1..n |-> <<ts[i], o[i]>>] : o \in [1..n -> sim_cfg.randint]} :
                 T \in {U \in SUBSET candidates : Cardinality(U) = n}}

\* _fast_jaccard, in 1/XScale
FastJaccard(nbrs_u, nbrs_v) ==
    LET union == Cardinality(nbrs_u \cup nbrs_v)
    IN IF union > 0 THEN (Cardinality(nbrs_u \cap nbrs_v) * XScale) \div union ELSE 0

\* a plausible slip: a dense community is suspect whatever its external ratio
IsSuspectDensityOnly(stats) == stats.din >= SUSPECT_DIN

\* _is_suspect
IsSuspect(stats) == stats.din >= SUSPECT_DIN /\ stats.ext_ratio <= SUSPECT_EXTER

\* _structural_penalty
StructuralPenalty(sim, din) == Max(0, XScale - (BETA * sim + GAMMA * din) \div XScale)

\* ITE.penalized_evidence, in 1/XScale
PenalizedEvidence(part, stats, nb, endorser_id, target_id, raw_outcome) ==
    LET e == raw_outcome * XScale
    IN IF part = <<>> THEN e
       ELSE IF endorser_id \notin DOMAIN part \/ target_id \notin DOMAIN part THEN e
       ELSE IF part[endorser_id] # part[target_id] THEN e
       ELSE IF part[endorser_id] \notin DOMAIN stats THEN e
       ELSE IF ~IsSuspect(stats[part[endorser_id]]) THEN e
       ELSE LET sim == FastJaccard(nb[endorser_id] \cup {endorser_id},
                                   nb[target_id] \cup {target_id})
                w == StructuralPenalty(sim, stats[part[endorser_id]].din)
            IN (w * e) \div XScale

\* the edges of ITE._graph
GraphEdges(w) == {p \in Pairs : w[p] > 0}

\* the statistics ITE._recompute derives for the community cid of partition part
CommStatsOf(part, w, cid) ==
    LET mset == {x \in DOMAIN part : part[x] = cid}
        n == Cardinality(mset)
        internal == Cardinality({p \in GraphEdges(w) : p[1] \in mset /\ p[2] \in mset})
        external == Cardinality({p \in GraphEdges(w) : p[1] \in mset /\ p[2] \notin mset})
        max_int == n * (n - 1)
        total_out == internal + external
    IN [members |-> mset,
        din |-> IF max_int > 0 THEN (internal * XScale) \div max_int ELSE 0,
        ext_ratio |-> IF total_out > 0 THEN (external * XScale) \div total_out ELSE XScale]

\* the partitions community_louvain.best_partition may return for the graph; with
\* no edge _recompute puts every node in its own community
PossiblePartitions(ns, w) ==
    IF GraphEdges(w) = {} THEN {[x \in ns |-> x]}
    ELSE [ns -> 0..(Cardinality(ns) - 1)]

\* a plausible slip: the partition is recomputed on every tick
RecomputeDueEveryTick(step, interval) == TRUE

\* if self._step % self._recompute_interval == 0
RecomputeDue(step, interval) == step % interval = 0

\* ITE.tick: count the step and, when due, _recompute
Tick ==
    /\ ite_step' = ite_step + 1
    /\ IF RecomputeDue(ite_step + 1, ite_cfg.recompute_interval)
       THEN \E part \in PossiblePartitions(nodes, weight) :
               /\ partition' = part
               /\ comm_stats' = [cid \in {part[x] : x \in DOMAIN part} |->
                                   CommStatsOf(part, weight, cid)]
       ELSE UNCHANGED <<partition, comm_stats>>

\* the engines under test: recompute every second tick, one interaction per
\* call; the defaults of beta and gamma, and both set to 0.2
IteConfigs ==
    {[DefaultIteCfg EXCEPT !.recompute_interval = 2, !.k_interactions = 1],
     [DefaultIteCfg EXCEPT !.recompute_interval = 2, !.k_interactions = 1,
                           !.beta = 200, !.gamma = 200]}

\* what the agents and the scheduler hold; the engine's interface leaves it alone
agentVars ==
    <<sim_cfg, ite_cfg, scenario, is_attacker, irv0, reputation, volatility, isolated,
      current_step, newly_isolated, isolation_step, phase, pending>>

\* ITE.generate_interactions(agent_id, all_ids), for the sampled pairs `choice`
GenerateInteractions(a, all_ids, choice) ==
    /\ SumF(weight, Pairs) + Len(choice) <= MaxEdgeUpdates
    /\ \E g \in {AddEdges(EnsureNodes(GraphNow, {a} \cup all_ids), a, choice)} :
          /\ nodes' = g.nodes
          /\ weight' = g.weight
          /\ last' = g.last
          /\ nbrs' = g.nbrs
    /\ lastEvent' = [op |-> "generate_interactions"]
    /\ UNCHANGED <<partition, comm_stats, ite_step, agentVars>>

\* ITE.force_interaction(u, v, outcome)
ForceInteraction(u, v, outcome) ==
    /\ SumF(weight, Pairs) < MaxEdgeUpdates
    /\ \E g \in {AddEdge(EnsureNodes(GraphNow, {u, v}), u, v, outcome)} :
          /\ nodes' = g.nodes
          /\ weight' = g.weight
          /\ last' = g.last
          /\ nbrs' = g.nbrs
    /\ lastEvent' = [op |-> "force_interaction"]
    /\ UNCHANGED <<partition, comm_stats, ite_step, agentVars>>

\* ITE.generate_interactions(agent_id, all_ids) with the list it returns
GenerateInteractionsReturn(a, all_ids, choice) ==
    /\ SumF(weight, Pairs) + Len(choice) <= MaxEdgeUpdates
    /\ \E g \in {AddEdges(EnsureNodes(GraphNow, {a} \cup all_ids), a, choice)} :
          /\ nodes' = g.nodes
          /\ weight' = g.weight
          /\ last' = g.last
          /\ nbrs' = g.nbrs
    /\ lastEvent' = [op |-> "generate_interactions", agent |-> a, all_ids |-> all_ids,
                     pairs |-> choice]
    /\ UNCHANGED <<partition, comm_stats, ite_step, agentVars>>

\* ITE.force_interaction(u, v, outcome) with its arguments
ForceInteractionOf(u, v, outcome) ==
    /\ SumF(weight, Pairs) < MaxEdgeUpdates
    /\ \E g \in {AddEdge(EnsureNodes(GraphNow, {u, v}), u, v, outcome)} :
          /\ nodes' = g.nodes
          /\ weight' = g.weight
          /\ last' = g.last
          /\ nbrs' = g.nbrs
    /\ lastEvent' = [op |-> "force_interaction", u |-> u, v |-> v, outcome |-> outcome]
    /\ UNCHANGED <<partition, comm_stats, ite_step, agentVars>>

\* ITE.tick()
TickCall ==
    /\ ite_step < MaxIteTicks
    /\ Tick
    /\ lastEvent' = [op |-> "tick"]
    /\ UNCHANGED <<nodes, weight, last, nbrs, agentVars>>

\* ITE.penalized_evidence(endorser_id, target_id, raw_outcome): the float returned
PenalizedEvidenceCall(endorser_id, target_id, raw_outcome) ==
    /\ lastEvent' = [op |-> "penalized_evidence", endorser |-> endorser_id,
                     target |-> target_id, raw |-> raw_outcome,
                     value |-> PenalizedEvidence(partition, comm_stats, nbrs,
                                                 endorser_id, target_id, raw_outcome)]
    /\ UNCHANGED <<nodes, weight, last, nbrs, partition, comm_stats, ite_step, agentVars>>

\* ------------------------------------------------------------------------
\* Scenarios (scenarios.py)
\* ------------------------------------------------------------------------
DEFECT_STEP == 201
PHASE_MISBEHAVE_START == 101
PHASE_REFORM_START == 201

ScenarioKinds == {"none", "sleeper", "transgression", "collusion"}

\* the number of ids setup samples into model._attacker_ids
AttackerCount(kind) ==
    CASE kind = "sleeper" -> NSleeperAttackers
      [] kind = "transgression" -> Max(1, (20 * NAgents) \div 100)
      [] kind = "collusion" -> Max(2, (20 * NAgents) \div 100)
      [] OTHER -> 0

\* the scenario objects a model may be constructed with, after setup; of the
\* equally likely samples of _attacker_ids the one with the lowest ids is taken
Scenarios ==
    {[kind |-> k, attackers |-> 1..AttackerCount(k)] : k \in ScenarioKinds}

\* is_attacker after setup: collusion leaves its colluders on honest credentials
SetupIsAttacker(sc) ==
    [a \in Agents |-> sc.kind \in {"sleeper", "transgression"} /\ a \in sc.attackers]

\* the outcome inject forces at step t
InjectOutcome(kind, t) ==
    CASE kind = "sleeper" -> IF t < DEFECT_STEP THEN 1 ELSE 0
      [] kind = "transgression" ->
            IF t < PHASE_MISBEHAVE_START THEN 1
            ELSE IF t < PHASE_REFORM_START THEN 0 ELSE 1
      [] OTHER -> 1

\* a plausible slip: the actors that take part are not filtered by `isolated`
ActiveIdsUnfiltered(iso) == Agents

\* [a.unique_id for a in model.schedule.agents if not a.isolated]
ActiveIds(iso) == {a \in Agents : ~iso[a]}

\* the sets of edges inject may force at step t: one random active target per
\* active attacker (sleeper, transgression), every ordered pair of active
\* colluders (collusion)
InjectChoices(sc, iso, t) ==
    LET active == ActiveIds(iso)
    IN CASE sc.kind = "none" -> {{}}
         [] sc.kind = "collusion" ->
              {{<<u, v, 1>> : u, v \in sc.attackers \cap active} \
                 {<<u, u, 1>> : u \in Agents}}
         [] OTHER ->
              LET src == {u \in sc.attackers \cap active : active \ {u} # {}}
              IN {{<<u, ch[u], InjectOutcome(sc.kind, t)>> : u \in src} :
                     ch \in {f \in [src -> Agents] : \A u \in src : f[u] \in active \ {u}}}

\* ------------------------------------------------------------------------
\* Seeded generators, the credential synthesizer (vcgen.py) and the process-wide
\* generator the scenarios draw from
\* ------------------------------------------------------------------------
\* the successor of a generator state: a seed fixes the whole stream
NextRandom(s) == (s * 75 + 74) % 65537

RECURSIVE RandomAt(_, _)
\* the i-th draw, i >= 1, of random.Random(seed)
RandomAt(seed, i) == IF i = 1 THEN NextRandom(seed) ELSE NextRandom(RandomAt(seed, i - 1))

\* _VC_TYPES, _ISSUER_TIERS
VC_TYPES == <<"KYC", "DID_DOC", "BEHAVIORAL", "DELEGATED", "GOVERNANCE">>
ISSUER_TIERS == <<"ROOT_CA", "INTERMEDIATE_CA", "LEAF_ISSUER">>

\* _TIER_TRUST_RANGE, in 1/WScale
TierTrustRange(tier) ==
    CASE tier = "ROOT_CA" -> <<88, 100>>
      [] tier = "INTERMEDIATE_CA" -> <<70, 90>>
      [] OTHER -> <<45, 75>>

\* _REVOCATION_PROB_HONEST, _REVOCATION_PROB_ATTACKER, in percent
REVOCATION_PROB_HONEST == 2
REVOCATION_PROB_ATTACKER == 35

\* the seconds of a year: the range of the issuance and expiry offsets
YEAR_SECONDS == 31536000

\* the i-th VCRecord of VCGen.generate, built from the draws d of the call's
\* generator starting at position k, at wall-clock second `now`
MakeRecord(agent_id, i, vt, attacker_flag, now, seed, k) ==
    LET d(j)  == RandomAt(seed, k + j)
        tier  == ISSUER_TIERS[(d(0) % 3) + 1]
        range == TierTrustRange(tier)
        trust == range[1] + (d(1) % (range[2] - range[1] + 1))
        base  == CASE tier = "ROOT_CA" -> 0 [] tier = "INTERMEDIATE_CA" -> 1 [] OTHER -> 2
    IN [vc_id        |-> <<agent_id, i, vt>>,
        vc_type      |-> vt,
        issuer_tier  |-> tier,
        issuer_trust |-> IF attacker_flag THEN (trust * (50 + (d(2) % 36))) \div 100 ELSE trust,
        subject_id   |-> agent_id,
        revoked      |-> (d(3) % 100) < (IF attacker_flag THEN REVOCATION_PROB_ATTACKER
                                          ELSE REVOCATION_PROB_HONEST),
        attributes   |-> [draw |-> d(4),
                          expiry_epoch |-> IF vt = "DELEGATED"
                                           THEN now + 86400 + (d(4) % (YEAR_SECONDS - 86400 + 1))
                                           ELSE 0],
        bba          |-> [attacker |-> attacker_flag, draw |-> d(5)],
        issuance_ts  |-> now - (d(6) % (YEAR_SECONDS + 1)),
        chain_depth  |-> base + (d(7) % 2)]

\* the seed multiplier of VCGen.generate
SEED_STRIDE == 100003

\* VCGen.generate(agent_id, n_credentials, attacker_flag) at wall-clock second `now`:
\* the types are drawn first, then a block of draws per record
Generate(seed_offset, agent_id, n_credentials, attacker_flag, now) ==
    LET seed == agent_id + seed_offset * SEED_STRIDE
    IN [i \in 1..n_credentials |->
          MakeRecord(agent_id, i - 1, VC_TYPES[(RandomAt(seed, i) % 5) + 1], attacker_flag,
                     now, seed, n_credentials + 8 * (i - 1) + 1)]

\* random.choice(targets) of the process-wide generator in state s
GlobalChoice(s, targets) == Ascending(targets)[(NextRandom(s) % Cardinality(targets)) + 1]

RECURSIVE GlobalSample(_, _, _)
\* random.sample(ids, n) of the process-wide generator in state s: the ids
\* picked and the state afterwards
GlobalSample(s, ids, n) ==
    IF n = 0 THEN [picked |-> {}, s |-> s]
    ELSE LET x    == GlobalChoice(s, ids)
             rest == GlobalSample(NextRandom(s), ids \ {x}, n - 1)
         IN [picked |-> {x} \cup rest.picked, s |-> rest.s]

RECURSIVE SleeperInject(_, _, _)
\* SleeperAgentScenario.inject with no actor isolated: the target forced for
\* each attacker, and the state of the process-wide generator afterwards
SleeperInject(s, attackers, forced) ==
    IF attackers = {} THEN [forced |-> forced, s |-> s]
    ELSE LET uid == CHOOSE u \in attackers : \A v \in attackers : u <= v
         IN SleeperInject(NextRandom(s), attackers \ {uid},
                          (uid :> GlobalChoice(s, Agents \ {uid})) @@ forced)

\* two runs: each with its wall clock and its process-wide generator, whose
\* state at start no seed of the program fixes
InitRuns ==
    /\ run_env \in [1..2 -> [clock : {0}, random : {0, 1}]]
    /\ run_out = [r \in 1..2 |-> [creds |-> <<>>, attacker_ids |-> {}, forced |-> <<>>]]

\* a second passes on the wall clock of run r
WallClockTick(r) ==
    /\ run_env[r].clock < MaxClock
    /\ run_env' = [run_env EXCEPT ![r].clock = @ + 1]
    /\ UNCHANGED run_out

\* both runs call VCGen(seed_offset).generate with the same arguments
BothGenerate(seed_offset, agent_id, n_credentials, attacker_flag) ==
    /\ run_out' = [r \in 1..2 |->
                     [run_out[r] EXCEPT !.creds = Generate(seed_offset, agent_id, n_credentials,
                                                          attacker_flag, run_env[r].clock)]]
    /\ UNCHANGED run_env

\* both runs call SleeperAgentScenario.setup
BothSetup ==
    /\ \A r \in 1..2 : run_out[r].attacker_ids = {}
    /\ \E s \in {[r \in 1..2 |-> GlobalSample(run_env[r].random, Agents, NSleeperAttackers)]} :
          /\ run_out' = [r \in 1..2 |-> [run_out[r] EXCEPT !.attacker_ids = s[r].picked]]
          /\ run_env' = [r \in 1..2 |-> [run_env[r] EXCEPT !.random = s[r].s]]

\* both runs call SleeperAgentScenario.inject
BothInject ==
    /\ \A r \in 1..2 : run_out[r].attacker_ids # {} /\ run_out[r].forced = <<>>
    /\ \E s \in {[r \in 1..2 |->
                     SleeperInject(run_env[r].random, run_out[r].attacker_ids, <<>>)]} :
          /\ run_out' = [r \in 1..2 |-> [run_out[r] EXCEPT !.forced = s[r].forced]]
          /\ run_env' = [r \in 1..2 |-> [run_env[r] EXCEPT !.random = s[r].s]]

\* ------------------------------------------------------------------------
\* Agents and the scheduler loop (model.py)
\* ------------------------------------------------------------------------
\* ChronosRepModel.TAU = 0.4, in 1/XScale
TAU == 400

\* irv[0], the belief in {trusted}, that IRV_PE.process yields for the credentials
\* VCGen builds with _build_honest_bba and with _build_attacker_bba
HonestIrv0 == 900
AttackerIrv0 == 50

\* VCGen.generate is seeded by the actor alone: the same credentials at every step
CredIrv0(attacker) == IF attacker THEN AttackerIrv0 ELSE HonestIrv0

\* the normal draws of the model's VADM instance
SimNormalDraws == {1000}
SimJumpDraws == {1000}

DefaultBsmCfg == [h |-> CUSUM_H, k |-> CUSUM_K]

\* a plausible slip: step has no early return for an isolated agent
SkipsStepNever(a) == FALSE

\* if self.isolated: return
SkipsStep(a) == isolated[a]

\* a plausible slip: the isolation threshold is compared with <= one half
BelowTauLoose(rep) == rep <= 500

\* if self.reputation < self.model.TAU
BelowTau(rep) == rep < TAU

\* r_static: the mean penalized evidence (irv[0] without evidence), discounted by
\* half the anomaly score
StaticScore(evidence, irv_0, anomaly) ==
    LET mean == IF evidence # <<>> THEN SumSeq(evidence) \div Len(evidence) ELSE irv_0
    IN DivT(mean * (2 * anomaly.d - anomaly.n), 2 * anomaly.d)

\* BSM.monitor as one call: the actor's stream state and the returned dict
MonitorRun(cfg, states, a, stream) ==
    LET mon == ObserveAll(cfg, BsmEnsure(states, a)[a], <<>>, stream)
        ms  == WithEntropy(mon.s)
    IN [ms |-> ms, result |-> MonitorResult(a, ms, mon.alarms)]

\* the body of ChronosAgent.step below its guard, for the sampled interactions
\* `choice` and the normal draws z1, z2: the values it assigns
AgentStepEffect(a, all_ids, irv_0, choice, z1, z2, graph, part, stats, bcfg, bstates, vcfg, vstates) ==
    LET g        == AddEdges(EnsureNodes(graph, {a} \cup all_ids), a, choice)
        outcomes == [i \in 1..Len(choice) |-> choice[i][2]]
        evidence == [i \in 1..Len(choice) |->
                       PenalizedEvidence(part, stats, g.nbrs, a, choice[i][1], choice[i][2])]
        mon      == MonitorRun(bcfg, bstates, a, outcomes)
        r_static == StaticScore(evidence, irv_0, mon.result.anomaly_score)
    IN [irv_0 |-> irv_0, g |-> g, ms |-> mon.ms, result |-> mon.result,
        v |-> VadmStep(vcfg, vstates, a, irv_0, r_static, z1, z2)]

InitSim ==
    /\ scenario \in Scenarios
    /\ is_attacker = SetupIsAttacker(scenario)
    /\ irv0 = [a \in Agents |-> 0]
    /\ reputation = [a \in Agents |-> 500]
    /\ volatility = [a \in Agents |-> 0]
    /\ isolated = [a \in Agents |-> FALSE]
    /\ nodes = {}
    /\ weight = [p \in Pairs |-> 0]
    /\ last = [p \in Pairs |-> -1]
    /\ nbrs = [a \in Agents |-> {}]
    /\ partition = <<>>
    /\ comm_stats = <<>>
    /\ ite_step = 0
    /\ current_step = 0
    /\ newly_isolated = {}
    /\ isolation_step = <<>>
    /\ phase = "idle"
    /\ pending = {}
    /\ lastEvent = [op |-> "init"]

\* ChronosRepModel.step up to schedule.step(): clear, count, scenario.inject
ModelStepBegin ==
    /\ phase = "idle"
    /\ current_step < sim_cfg.T
    /\ newly_isolated' = {}
    /\ current_step' = current_step + 1
    /\ \E edges \in InjectChoices(scenario, isolated, current_step + 1) :
       \E g \in {ForceAll(GraphNow, edges)} :
             /\ nodes' = g.nodes
             /\ weight' = g.weight
             /\ last' = g.last
             /\ nbrs' = g.nbrs
             /\ lastEvent' = [op |-> "inject", edges |-> edges]
    /\ is_attacker' = IF scenario.kind = "transgression"
                         /\ current_step + 1 >= PHASE_REFORM_START
                      THEN [a \in Agents |-> is_attacker[a] /\ a \notin scenario.attackers]
                      ELSE is_attacker
    /\ pending' = Agents
    /\ phase' = "schedule"
    /\ UNCHANGED <<sim_cfg, ite_cfg, scenario, irv0, reputation, volatility, isolated, partition,
                   comm_stats, ite_step, isolation_step, bsm_states, bsm_result,
                   vadm_states, vadm_ret, ou_traj>>

\* ChronosAgent.step, in the order RandomActivation picks
AgentStep(a) ==
    /\ phase = "schedule"
    /\ a \in pending
    /\ pending' = pending \ {a}
    /\ IF SkipsStep(a)
       THEN /\ lastEvent' = [op |-> "agent_skip", agent |-> a]
            /\ UNCHANGED <<irv0, reputation, volatility, isolated, nodes, weight, last,
                           nbrs, newly_isolated, bsm_states, vadm_states>>
       ELSE \E choice \in InteractionChoices(a, ActiveIds(isolated)),
               z1 \in SimNormalDraws, z2 \in SimJumpDraws :
            \E r \in {AgentStepEffect(a, ActiveIds(isolated), CredIrv0(is_attacker[a]),
                                      choice, z1, z2, GraphNow, partition, comm_stats,
                                      bsm_cfg, bsm_states, vadm_cfg, vadm_states)} :
               /\ irv0' = [irv0 EXCEPT ![a] = r.irv_0]
               /\ nodes' = r.g.nodes
               /\ weight' = r.g.weight
               /\ last' = r.g.last
               /\ nbrs' = r.g.nbrs
               /\ bsm_states' = (a :> r.ms) @@ bsm_states
               /\ vadm_states' = r.v.states
               /\ reputation' = [reputation EXCEPT ![a] = r.v.x]
               /\ volatility' = [volatility EXCEPT ![a] = r.v.sigma_w]
               /\ isolated' = IF BelowTau(r.v.x) THEN [isolated EXCEPT ![a] = TRUE]
                              ELSE isolated
               /\ newly_isolated' = IF BelowTau(r.v.x) THEN newly_isolated \cup {a}
                                    ELSE newly_isolated
               /\ lastEvent' = [op |-> "agent_step", agent |-> a, rep |-> r.v.x,
                                targets |-> {choice[i][1] : i \in 1..Len(choice)}]
    /\ UNCHANGED <<sim_cfg, ite_cfg, scenario, is_attacker, partition, comm_stats, ite_step,
                   current_step, isolation_step, phase, bsm_result, vadm_ret, ou_traj>>

\* a plausible slip: the tick hook does not wait for schedule.step() to return
ScheduleDoneEarly == TRUE

\* the schedule has stepped every agent: schedule.step() has returned
ScheduleDone == pending = {}

\* ChronosRepModel.step after schedule.step(): ite.tick(), _isolation_step
ModelStepEnd ==
    /\ phase = "schedule"
    /\ ScheduleDone
    /\ Tick
    /\ isolation_step' = [a \in DOMAIN isolation_step \cup newly_isolated |->
                            IF a \in DOMAIN isolation_step THEN isolation_step[a]
                            ELSE current_step]
    /\ phase' = "idle"
    /\ lastEvent' = [op |-> "tick"]
    /\ UNCHANGED <<sim_cfg, ite_cfg, scenario, is_attacker, irv0, reputation, volatility, isolated,
                   nodes, weight, last, nbrs, current_step, newly_isolated, pending,
                   bsm_states, bsm_result, vadm_states, vadm_ret, ou_traj>>

\* ------------------------------------------------------------------------
\* Credential registry (identity/registry.py)
\* ------------------------------------------------------------------------
STATUS_ACTIVE  == "ACTIVE"
STATUS_REVOKED == "REVOKED"

\* the fields of a credential record that register reads into the indexes
RegistryCreds ==
    [vc_id : {"vc-a", "vc-b"}, subject_id : {1, 2}, vc_type : {"KYC"}, revoked : BOOLEAN]

\* defaultdict(list)[key]
ListAt(index, key) == IF key \in DOMAIN index THEN index[key] ELSE <<>>

\* CredentialRegistry.subject_credentials: one entry per id in the subject's list
SubjectCredentials(entries, by_subject, subject_id) ==
    LET ids == ListAt(by_subject, subject_id)
        kept == SelectSeq(ids, LAMBDA i : i \in DOMAIN entries)
    IN [k \in 1..Len(kept) |-> entries[kept[k]]]

\* the number of entries of a list that have the status
CountStatus(creds, status) == Cardinality({k \in 1..Len(creds) : creds[k].status = status})

\* CredentialRegistry.active_count
ActiveCount(entries, by_subject, subject_id) ==
    CountStatus(SubjectCredentials(entries, by_subject, subject_id), STATUS_ACTIVE)

\* CredentialRegistry.revocation_ratio, as the rational n / d
RevocationRatio(entries, by_subject, subject_id) ==
    LET creds == SubjectCredentials(entries, by_subject, subject_id)
    IN IF creds = <<>> THEN [n |-> 0, d |-> 1]
       ELSE [n |-> CountStatus(creds, STATUS_REVOKED), d |-> Len(creds)]

\* CredentialRegistry()
InitRegistry ==
    /\ reg_entries = <<>>
    /\ reg_by_subject = <<>>
    /\ reg_by_type = <<>>
    /\ reg_totals = [registered |-> 0, revoked |-> 0]
    /\ reg_ret = [op |-> "none"]

\* CredentialRegistry.register(vc)
Register(vc) ==
    /\ reg_totals.registered < MaxRegistered
    /\ reg_entries' = (vc.vc_id :> [vc_id |-> vc.vc_id, subject_id |-> vc.subject_id,
                                     vc_type |-> vc.vc_type,
                                     status |-> IF vc.revoked THEN STATUS_REVOKED
                                                ELSE STATUS_ACTIVE]) @@ reg_entries
    /\ reg_by_subject' = (vc.subject_id :> Append(ListAt(reg_by_subject, vc.subject_id),
                                                  vc.vc_id)) @@ reg_by_subject
    /\ reg_by_type' = (vc.vc_type :> Append(ListAt(reg_by_type, vc.vc_type), vc.vc_id))
                         @@ reg_by_type
    /\ reg_totals' = [registered |-> reg_totals.registered + 1,
                      revoked |-> reg_totals.revoked + (IF vc.revoked THEN 1 ELSE 0)]
    /\ reg_ret' = [op |-> "register", vc_id |-> vc.vc_id, result |-> TRUE]

\* CredentialRegistry.revoke(vc_id)
Revoke(vc_id) ==
    /\ IF vc_id \in DOMAIN reg_entries /\ reg_entries[vc_id].status = STATUS_ACTIVE
       THEN /\ reg_entries' = [reg_entries EXCEPT ![vc_id].status = STATUS_REVOKED]
            /\ reg_totals' = [reg_totals EXCEPT !.revoked = @ + 1]
            /\ reg_ret' = [op |-> "revoke", vc_id |-> vc_id, result |-> TRUE]
       ELSE /\ reg_ret' = [op |-> "revoke", vc_id |-> vc_id, result |-> FALSE]
            /\ UNCHANGED <<reg_entries, reg_totals>>
    /\ UNCHANGED <<reg_by_subject, reg_by_type>>

\* ------------------------------------------------------------------------
\* Specifications
\* ------------------------------------------------------------------------
\* the engines as ChronosRepModel.__init__ constructs them
InitEngines ==
    /\ bsm_cfg = DefaultBsmCfg
    /\ InitBsm
    /\ vadm_cfg = DefaultVadmCfg
    /\ InitVadm

\* a run of MaxTicks steps of a model as ChronosRepModel.__init__ constructs it
DefaultRun ==
    /\ sim_cfg = [T |-> MaxTicks, randint |-> {0, 1}]
    /\ ite_cfg = DefaultIteCfg

\* a model without scenario, not stepped
InitSimIdle ==
    /\ InitSim
    /\ scenario.kind = "none"
    /\ DefaultRun

\* no second run and no second VADM instance; an empty registry
InitPairsIdle ==
    /\ run_env = <<>>
    /\ run_out = <<>>
    /\ order_vadm = <<>>
    /\ order_ret = <<>>
    /\ InitRegistry

\* The simulation: ChronosRepModel with one of the scenarios, stepped MaxTicks times
Init ==
    /\ InitFusion
    /\ InitEngines
    /\ InitSim
    /\ DefaultRun
    /\ InitPairsIdle

Next ==
    \/ /\ ModelStepBegin
       /\ UNCHANGED <<fusionVars, bsm_cfg, bsm_pc, bsm_agent, bsm_stream, bsm_alarms, vadm_cfg,
                    runVars, orderVars, regVars>>
    \/ /\ \E a \in Agents : AgentStep(a)
       /\ UNCHANGED <<fusionVars, bsm_cfg, bsm_pc, bsm_agent, bsm_stream, bsm_alarms, vadm_cfg,
                    runVars, orderVars, regVars>>
    \/ /\ ModelStepEnd
       /\ UNCHANGED <<fusionVars, bsm_cfg, bsm_pc, bsm_agent, bsm_stream, bsm_alarms, vadm_cfg,
                    runVars, orderVars, regVars>>

Spec == Init /\ [][Next]_vars

\* The fusion engine alone, on every input of the bounds
InitFusionOnly ==
    /\ InitFusion
    /\ InitEngines
    /\ InitSimIdle
    /\ InitPairsIdle

NextFusion ==
    \/ /\ \E b \in FoldInputs : StartFold(b)
       /\ UNCHANGED <<bsmVars, vadmVars, simVars, runVars, orderVars, regVars>>
    \/ /\ \E b \in FoldInputs : FuseNext(b)
       /\ UNCHANGED <<bsmVars, vadmVars, simVars, runVars, orderVars, regVars>>
    \/ /\ \E b \in InputBBAs, w \in DiscountWeights : Discount(b, w)
       /\ UNCHANGED <<bsmVars, vadmVars, simVars, runVars, orderVars, regVars>>
    \/ /\ \E b \in InputBBAs, cond \in SUBSETS \cup {EMPTY} : ConditionCall(b, cond)
       /\ UNCHANGED <<bsmVars, vadmVars, simVars, runVars, orderVars, regVars>>

SpecFusion == InitFusionOnly /\ [][NextFusion]_vars

\* IRV_PE.process alone, on every credential list of the bounds
NextProcess ==
    /\ \E n \in 0..MaxCreds : \E creds \in [1..n -> Credentials] : ProcessCall(creds)
    /\ UNCHANGED <<bsmVars, vadmVars, simVars, runVars, orderVars, regVars>>

SpecProcess == InitFusionOnly /\ [][NextProcess]_vars

\* The surveillance monitor alone, for each configured instance
InitBsmOnly ==
    /\ InitFusion
    /\ bsm_cfg \in BsmConfigs
    /\ InitBsm
    /\ vadm_cfg = DefaultVadmCfg
    /\ InitVadm
    /\ InitSimIdle
    /\ InitPairsIdle

NextBsm ==
    \/ /\ \E a \in BsmAgents, stream \in Streams : MonitorCall(a, stream)
       /\ UNCHANGED <<fusionVars, vadmVars, simVars, runVars, orderVars, regVars>>
    \/ /\ MonitorObserve
       /\ UNCHANGED <<fusionVars, vadmVars, simVars, runVars, orderVars, regVars>>
    \/ /\ MonitorReturn
       /\ UNCHANGED <<fusionVars, vadmVars, simVars, runVars, orderVars, regVars>>

SpecBsm == InitBsmOnly /\ [][NextBsm]_vars

\* The dynamics module alone, for each configured instance
InitVadmOnly ==
    /\ InitFusion
    /\ bsm_cfg = DefaultBsmCfg
    /\ InitBsm
    /\ vadm_cfg \in VadmConfigs
    /\ InitVadm
    /\ InitSimIdle
    /\ InitPairsIdle

NextVadm ==
    /\ \E a \in VadmAgents, irv_0 \in IrvInputs, r_static \in StaticInputs,
          z1 \in NormalDraws, z2 \in JumpDraws :
          VadmStepCall(a, irv_0, r_static, z1, z2)
    /\ UNCHANGED <<fusionVars, bsmVars, simVars, runVars, orderVars, regVars>>

SpecVadm == InitVadmOnly /\ [][NextVadm]_vars

\* The dynamics module stepping one actor and generating trajectories
NextOu ==
    \/ /\ \E a \in VadmAgents, z1 \in {0, 2000} : VadmStepCall(a, 600, 600, z1, 0)
       /\ UNCHANGED <<fusionVars, bsmVars, simVars, runVars, orderVars, regVars>>
    \/ /\ \E x0 \in IrvInputs, mu \in IrvInputs, n \in 0..MaxOuSteps :
          \E draws \in [1..n -> NormalDraws] :
             StepOuOnlyCall(x0, mu, vadm_cfg.theta_0, draws)
       /\ UNCHANGED <<fusionVars, bsmVars, simVars, runVars, orderVars, regVars>>

SpecOu == InitVadmOnly /\ [][NextOu]_vars

\* Two runs of the program with the same seeds and the same calls
InitRunsOnly ==
    /\ InitFusion
    /\ InitEngines
    /\ InitSimIdle
    /\ InitRuns
    /\ order_vadm = <<>>
    /\ order_ret = <<>>
    /\ InitRegistry

NextRuns ==
    \/ /\ \E r \in 1..2 : WallClockTick(r)
       /\ UNCHANGED <<fusionVars, bsmVars, vadmVars, simVars, orderVars, regVars>>
    \/ /\ \E agent_id \in Agents, n \in 1..MaxGenerated, is_att \in BOOLEAN :
             BothGenerate(0, agent_id, n, is_att)
       /\ UNCHANGED <<fusionVars, bsmVars, vadmVars, simVars, orderVars, regVars>>
    \/ /\ BothSetup
       /\ UNCHANGED <<fusionVars, bsmVars, vadmVars, simVars, orderVars, regVars>>
    \/ /\ BothInject
       /\ UNCHANGED <<fusionVars, bsmVars, vadmVars, simVars, orderVars, regVars>>

SpecRuns == InitRunsOnly /\ [][NextRuns]_vars

\* Two runs of the dynamics module that differ in the order of the actors
InitOrderOnly ==
    /\ InitFusion
    /\ InitEngines
    /\ InitSimIdle
    /\ run_env = <<>>
    /\ run_out = <<>>
    /\ InitOrder
    /\ InitRegistry

NextOrder ==
    /\ \E a, b \in Agents, in_a, in_b \in {600, 900} \X {0, 900} :
          StepBothOrders(a, b, in_a, in_b)
    /\ UNCHANGED <<fusionVars, bsmVars, vadmVars, simVars, runVars, regVars>>

SpecOrder == InitOrderOnly /\ [][NextOrder]_vars

\* The interaction engine alone, driven through its interface
InitIteOnly ==
    /\ InitFusion
    /\ InitEngines
    /\ InitSim
    /\ scenario.kind = "none"
    /\ sim_cfg = [T |-> 0, randint |-> {1}]
    /\ ite_cfg \in IteConfigs
    /\ InitPairsIdle

NextIte ==
    \/ /\ \E a \in Agents : \E choice \in InteractionChoices(a, Agents) :
             GenerateInteractions(a, Agents, choice)
       /\ UNCHANGED <<fusionVars, bsmVars, vadmVars, runVars, orderVars, regVars>>
    \/ /\ \E u, v \in Agents, outcome \in sim_cfg.randint :
             u # v /\ ForceInteraction(u, v, outcome)
       /\ UNCHANGED <<fusionVars, bsmVars, vadmVars, runVars, orderVars, regVars>>
    \/ /\ TickCall
       /\ UNCHANGED <<fusionVars, bsmVars, vadmVars, runVars, orderVars, regVars>>
    \/ /\ \E e, t \in Agents, raw \in {0, 1} : e # t /\ PenalizedEvidenceCall(e, t, raw)
       /\ UNCHANGED <<fusionVars, bsmVars, vadmVars, runVars, orderVars, regVars>>

SpecIte == InitIteOnly /\ [][NextIte]_vars

\* The simulation over a whole recompute window and one step beyond it, with
\* every interaction successful
InitLongRun ==
    /\ InitFusion
    /\ InitEngines
    /\ InitSim
    /\ sim_cfg = [T |-> MaxLongTicks, randint |-> {1}]
    /\ ite_cfg = DefaultIteCfg
    /\ InitPairsIdle

SpecLongRun == InitLongRun /\ [][Next]_vars

\* The interaction graph: an engine with fan-out 2, called with every candidate
\* list and every pair, u = v included
InitGraphOnly ==
    /\ InitFusion
    /\ InitEngines
    /\ InitSim
    /\ scenario.kind = "none"
    /\ sim_cfg = [T |-> 0, randint |-> {0, 1}]
    /\ ite_cfg = [DefaultIteCfg EXCEPT !.k_interactions = 2]
    /\ InitPairsIdle

NextGraph ==
    \/ /\ \E a \in Agents, all_ids \in SUBSET Agents :
             \E choice \in InteractionChoices(a, all_ids) :
                GenerateInteractionsReturn(a, all_ids, choice)
       /\ UNCHANGED <<fusionVars, bsmVars, vadmVars, runVars, orderVars, regVars>>
    \/ /\ \E u, v \in Agents, outcome \in sim_cfg.randint : ForceInteractionOf(u, v, outcome)
       /\ UNCHANGED <<fusionVars, bsmVars, vadmVars, runVars, orderVars, regVars>>

SpecGraph == InitGraphOnly /\ [][NextGraph]_vars

\* The interaction engine recomputing on every tick, with every pair forced,
\* u = v included
InitLoopsOnly ==
    /\ InitFusion
    /\ InitEngines
    /\ InitSim
    /\ scenario.kind = "none"
    /\ sim_cfg = [T |-> 0, randint |-> {1}]
    /\ ite_cfg = [DefaultIteCfg EXCEPT !.recompute_interval = 1, !.k_interactions = 1]
    /\ InitPairsIdle

NextLoops ==
    \/ /\ \E a \in Agents : \E choice \in InteractionChoices(a, Agents) :
             GenerateInteractions(a, Agents, choice)
       /\ UNCHANGED <<fusionVars, bsmVars, vadmVars, runVars, orderVars, regVars>>
    \/ /\ \E u, v \in Agents, outcome \in sim_cfg.randint : ForceInteraction(u, v, outcome)
       /\ UNCHANGED <<fusionVars, bsmVars, vadmVars, runVars, orderVars, regVars>>
    \/ /\ TickCall
       /\ UNCHANGED <<fusionVars, bsmVars, vadmVars, runVars, orderVars, regVars>>

SpecLoops == InitLoopsOnly /\ [][NextLoops]_vars

\* The credential registry alone: every sequence of register and revoke calls
NextRegistry ==
    \/ /\ \E vc \in RegistryCreds : Register(vc)
       /\ UNCHANGED <<fusionVars, bsmVars, vadmVars, simVars, runVars, orderVars>>
    \/ /\ \E vc_id \in {"vc-a", "vc-b", "vc-c"} : Revoke(vc_id)
       /\ UNCHANGED <<fusionVars, bsmVars, vadmVars, simVars, runVars, orderVars>>

SpecRegistry == InitFusionOnly /\ [][NextRegistry]_vars

\* ------------------------------------------------------------------------
\* Properties
\* ------------------------------------------------------------------------
\* C1: isolation is one-way and freezing. No step of the simulation takes an
\* isolated actor back to active, and none changes its reputation, its volatility
\* or its dynamics state.
C1_IsolationFreezes ==
    [][\A a \in Agents :
          isolated[a] =>
             /\ isolated'[a]
             /\ reputation'[a] = reputation[a]
             /\ volatility'[a] = volatility[a]
             /\ a \in DOMAIN vadm_states => vadm_states'[a] = vadm_states[a]]_vars

\* an actor isolated with a reputation below tau is scheduled again, in a later
\* tick, and its step returns at once
C1_Witness ==
    /\ lastEvent.op = "agent_skip"
    /\ isolated[lastEvent.agent]
    /\ reputation[lastEvent.agent] < TAU
    /\ lastEvent.agent \in DOMAIN isolation_step
    /\ current_step > isolation_step[lastEvent.agent]

\* C2: the isolated flag of an actor changes in a step if and only if that step
\* is the actor's own agent step, the actor was active, and the reputation its
\* dynamics update returned is strictly below tau; then the flag is set.
C2_IsolationOnlyByUpdate ==
    [][\A a \in Agents :
          /\ (isolated'[a] # isolated[a]) <=>
                /\ ~isolated[a]
                /\ lastEvent'.op = "agent_step"
                /\ lastEvent'.agent = a
                /\ reputation'[a] = lastEvent'.rep
                /\ lastEvent'.rep < TAU
          /\ (isolated'[a] # isolated[a]) => isolated'[a]]_vars

\* an active actor's update has just returned a reputation below tau and the
\* actor is isolated, while another actor stepped to tau or above and is active
C2_Witness ==
    /\ lastEvent.op = "agent_step"
    /\ lastEvent.rep < TAU
    /\ isolated[lastEvent.agent]
    /\ lastEvent.agent \in newly_isolated
    /\ \E b \in Agents : ~isolated[b] /\ reputation[b] >= TAU /\ b \in DOMAIN vadm_states

\* C3: no step records an interaction (adds to an edge of the interaction graph)
\* whose source or target was isolated before the step, be it an agent step or a
\* scenario injection.
C3_NoEdgeAtIsolated ==
    [][\A p \in Pairs :
          (weight'[p] # weight[p] \/ last'[p] # last[p]) =>
             ~isolated[p[1]] /\ ~isolated[p[2]]]_vars

\* a scenario injection forces interactions while an actor is isolated, and the
\* isolated actor is at neither end of any of them
C3_Witness ==
    /\ lastEvent.op = "inject"
    /\ lastEvent.edges # {}
    /\ \E b \in Agents :
          /\ isolated[b]
          /\ b \in scenario.attackers
          /\ \A e \in lastEvent.edges : e[1] # b /\ e[2] # b

\* C4: on every observation of a monitor with configured limit H, if an
\* accumulator exceeds H after its update then both accumulators end at 0, the
\* alarm counter grows by one and the step index before its increment is
\* appended to the alarm steps; otherwise the alarm counter is unchanged.
C4_CusumRearming ==
    [][(bsm_pc = "loop" /\ bsm_stream # <<>>) =>
          LET s   == bsm_states[bsm_agent]
              s2  == bsm_states'[bsm_agent]
              z   == ZscoreNormalize(Head(bsm_stream), WindowAppend(s.window, Head(bsm_stream)))
              pos == Max(0, s.cusum_pos + z - bsm_cfg.k)
              neg == Max(0, s.cusum_neg - z - bsm_cfg.k)
          IN IF pos > bsm_cfg.h \/ neg > bsm_cfg.h
             THEN /\ s2.cusum_pos = 0
                  /\ s2.cusum_neg = 0
                  /\ s2.alarm_count = s.alarm_count + 1
                  /\ bsm_alarms' = Append(bsm_alarms, s.t)
             ELSE /\ s2.alarm_count = s.alarm_count
                  /\ bsm_alarms' = bsm_alarms]_vars

\* C5: combining two normalized mass assignments whose conflict is below 1
\* yields masses that sum to 1, none on the empty set, all strictly positive.
C5_FusionNormalized ==
    (/\ lastOp = "combine"
     /\ TotalMass(lastM1) = lastM1.d
     /\ TotalMass(lastM2) = lastM2.d
     /\ ConflictSum(lastM1, lastM2) < lastM1.d * lastM2.d)
    => /\ TotalMass(acc) = acc.d
       /\ EMPTY \notin DOMAIN acc.m
       /\ \A A \in DOMAIN acc.m : acc.m[A] > 0

\* the second combination of a fold, of normalized operands in partial conflict
C5_Witness ==
    /\ lastOp = "combine"
    /\ nFold = MaxFold
    /\ TotalMass(lastM1) = lastM1.d
    /\ TotalMass(lastM2) = lastM2.d
    /\ ConflictSum(lastM1, lastM2) > 0
    /\ ConflictSum(lastM1, lastM2) < lastM1.d * lastM2.d
    /\ Cardinality(DOMAIN acc.m) > 1

\* C6: discounting a normalized mass assignment by w, 0.01 <= w < 1, multiplies
\* every mass by w, puts 1 - w more on the full frame (also when the assignment
\* has no entry for it), and so sums to 1.
C6_DiscountKeepsMass ==
    (lastOp = "downweight" /\ TotalMass(lastM1) = lastM1.d /\ lastW < WScale)
    => /\ TotalMass(acc) = acc.d
       /\ \A A \in SUBSETS :
             Mass(acc, A) * lastM1.d * WScale =
                acc.d * (Mass(lastM1, A) * lastW
                         + (IF A = FRAME THEN (WScale - lastW) * lastM1.d ELSE 0))

\* C7: when the conflict of two mass assignments is 1 or more, combining them
\* returns exactly mass 1 on the whole frame.
C7_TotalConflictIsIgnorance ==
    (lastOp = "combine" /\ ConflictSum(lastM1, lastM2) >= lastM1.d * lastM2.d)
    => acc = Vacuous

\* two assignments with mass on disjoint hypotheses only have been combined
C7_Witness ==
    /\ lastOp = "combine"
    /\ ConflictSum(lastM1, lastM2) >= lastM1.d * lastM2.d
    /\ FRAME \notin DOMAIN lastM1.m
    /\ FRAME \notin DOMAIN lastM2.m
    /\ acc = Vacuous

\* C8: at every point of a fold of mass assignments, for each of the 7
\* hypotheses H the belief in H is at most the plausibility of H.
C8_BeliefBelowPlausibility ==
    lastOp \in {"start", "combine"} =>
       \A H \in SUBSETS : Belief(acc, H) <= Plausibility(acc, H)

\* a fold of MaxFold combinations ends with a hypothesis whose belief is
\* positive and strictly below its plausibility
C8_Witness ==
    /\ lastOp = "combine"
    /\ nFold = MaxFold
    /\ \E H \in SUBSETS : 0 < Belief(acc, H) /\ Belief(acc, H) < Plausibility(acc, H)

\* C9: process returns, for every list of credentials, a vector of 5 components
\* each in [0, 1], and the zero vector for the empty list.
C9_ProcessTotalBounded ==
    lastOp = "process" =>
       /\ Len(irvOut) = 5
       /\ \A i \in 1..5 : 0 <= irvOut[i].n /\ irvOut[i].n <= irvOut[i].d
       /\ credsIn = <<>> => irvOut = ZeroIRV

\* process has fused MaxCreds credentials, one of them discounted for its
\* chain depth, into a vector with a belief strictly between 0 and 1
C9_Witness ==
    /\ lastOp = "process"
    /\ Len(credsIn) = MaxCreds
    /\ \E i \in 1..Len(credsIn) : credsIn[i].chain_depth > 0 /\ ~credsIn[i].revoked
    /\ 0 < irvOut[1].n
    /\ irvOut[1].n < irvOut[1].d
    /\ 0 < irvOut[2].n

\* C10: after every dynamics step the returned reputation is in [0, 1], the
\* returned volatility is >= 0 and is 0 while the history has fewer than 2
\* entries, theta lies in [1e-4, 10], and the history holds no more than the
\* configured window of values.
C10_DynamicsBounded ==
    /\ vadm_ret # NoReturn =>
          /\ X_LO <= vadm_ret.x /\ vadm_ret.x <= X_HI
          /\ vadm_ret.sigma_w >= 0
          /\ Len(vadm_states[vadm_ret.agent].history) < 2 => vadm_ret.sigma_w = 0
    /\ \A a \in DOMAIN vadm_states :
          /\ THETA_LO <= vadm_states[a].theta /\ vadm_states[a].theta <= THETA_HI
          /\ Len(vadm_states[a].history) <= vadm_cfg.window
          /\ X_LO <= vadm_states[a].x /\ vadm_states[a].x <= X_HI

\* an actor has stepped more often than the window holds, its oldest value was
\* evicted, its theta sits at the upper clip and its volatility is positive
C10_Witness ==
    /\ vadm_ret # NoReturn
    /\ vadm_states[vadm_ret.agent].t > vadm_cfg.window
    /\ Len(vadm_states[vadm_ret.agent].history) = vadm_cfg.window
    /\ vadm_states[vadm_ret.agent].theta = THETA_HI
    /\ vadm_ret.sigma_w > 0

\* the two actors are in one community of the current partition
SharedCommunity(e, t) ==
    /\ e \in DOMAIN partition
    /\ t \in DOMAIN partition
    /\ partition[e] = partition[t]
    /\ partition[e] \in DOMAIN comm_stats

\* C11: for an engine configured with beta and gamma, when endorser and target
\* share a suspect community, penalized_evidence returns
\* max(0, 1 - (beta * J + gamma * density)) * raw_outcome, J the Jaccard index of
\* the two neighbour sets each with the actor itself, density the community's
\* internal density.
C11_PenaltyWithConfiguredWeights ==
    (/\ lastEvent.op = "penalized_evidence"
     /\ SharedCommunity(lastEvent.endorser, lastEvent.target)
     /\ comm_stats[partition[lastEvent.endorser]].din >= SUSPECT_DIN
     /\ comm_stats[partition[lastEvent.endorser]].ext_ratio <= SUSPECT_EXTER)
    => LET e   == lastEvent.endorser
           tg  == lastEvent.target
           J   == FastJaccard(nbrs[e] \cup {e}, nbrs[tg] \cup {tg})
           din == comm_stats[partition[e]].din
           w   == Max(0, XScale - (ite_cfg.beta * J + ite_cfg.gamma * din) \div XScale)
       IN lastEvent.value = (w * lastEvent.raw * XScale) \div XScale

\* C15: the partition and the community statistics are replaced only by the
\* tick hook, and only on a tick whose incremented step counter is a multiple of
\* the recompute interval; generate_interactions, force_interaction and
\* penalized_evidence leave both unchanged.
C15_SnapshotOnlyAtBoundary ==
    [][(partition' # partition \/ comm_stats' # comm_stats) =>
          /\ lastEvent'.op = "tick"
          /\ ite_step' = ite_step + 1
          /\ ite_step' % ite_cfg.recompute_interval = 0]_vars

\* an interaction has been recorded after a recompute: the snapshot is stale,
\* its statistics are not those of the graph as it is now
C15_Witness ==
    /\ lastEvent.op \in {"generate_interactions", "force_interaction"}
    /\ partition # <<>>
    /\ ite_step % ite_cfg.recompute_interval = 0
    /\ \E cid \in DOMAIN comm_stats :
          comm_stats[cid] # CommStatsOf(partition, weight, cid)

\* C16: penalized_evidence returns the raw outcome unchanged when no partition
\* has been computed yet (fewer ticks than the recompute interval have elapsed),
\* when either actor has no community, when the two are in different
\* communities, and when their shared community is not suspect (density below
\* 0.60 or external ratio above 0.20); its result always lies between 0 and the
\* raw outcome.
C16_RawUnlessSuspect ==
    lastEvent.op = "penalized_evidence" =>
       LET e   == lastEvent.endorser
           tg  == lastEvent.target
           raw == lastEvent.raw * XScale
       IN /\ (\/ partition = <<>>
              \/ ite_step < ite_cfg.recompute_interval
              \/ ~SharedCommunity(e, tg)
              \/ comm_stats[partition[e]].din < SUSPECT_DIN
              \/ comm_stats[partition[e]].ext_ratio > SUSPECT_EXTER)
             => lastEvent.value = raw
          /\ 0 <= lastEvent.value
          /\ lastEvent.value <= raw

\* endorser and target share a dense community that is not suspect, for its
\* external ratio is above 0.20, and the positive outcome comes back unchanged
C16_Witness ==
    /\ lastEvent.op = "penalized_evidence"
    /\ lastEvent.raw = 1
    /\ SharedCommunity(lastEvent.endorser, lastEvent.target)
    /\ comm_stats[partition[lastEvent.endorser]].din >= SUSPECT_DIN
    /\ comm_stats[partition[lastEvent.endorser]].ext_ratio > SUSPECT_EXTER
    /\ lastEvent.value = XScale

\* C18: for a monitor constructed with control limit H and slack k, an
\* observation raises an alarm exactly when, after pos = max(0, pos + z - k) and
\* neg = max(0, neg - z - k), an accumulator is strictly greater than the
\* configured H, for every configured H.
C18_AlarmAtConfiguredLimit ==
    [][(bsm_pc = "loop" /\ bsm_stream # <<>>) =>
          LET s   == bsm_states[bsm_agent]
              z   == ZscoreNormalize(Head(bsm_stream), WindowAppend(s.window, Head(bsm_stream)))
              pos == Max(0, s.cusum_pos + z - bsm_cfg.k)
              neg == Max(0, s.cusum_neg - z - bsm_cfg.k)
          IN (Len(bsm_alarms') > Len(bsm_alarms)) <=> (pos > bsm_cfg.h \/ neg > bsm_cfg.h)]_vars

\* every outcome an actor was observed for is the same value
AllSame(window) == \A i \in 1..Len(window) : window[i] = window[1]

\* C19: the anomaly score reported for an actor is its cumulative alarms over
\* its cumulative observed outcomes, 0 when none was observed, within [0, 1],
\* and no observation that raises no alarm increases it.
C19_AnomalyScoreIsAlarmRate ==
    [][/\ \A a \in DOMAIN bsm_states' :
             LET sc == AnomalyScore(bsm_states', a)
             IN /\ 0 <= sc.n /\ sc.n <= sc.d
                /\ bsm_states'[a].t = Len(bsm_states'[a].window)
                /\ bsm_states'[a].t = 0 => sc.n = 0
                /\ bsm_states'[a].t > 0 =>
                      sc.n * bsm_states'[a].t = bsm_states'[a].alarm_count * sc.d
       /\ (bsm_pc' = "idle" /\ bsm_result' # NoResult) =>
             bsm_result'.anomaly_score = AnomalyScore(bsm_states', bsm_result'.agent_id)
       /\ (bsm_pc = "loop" /\ bsm_stream # <<>>) =>
             LET s  == bsm_states[bsm_agent]
                 s2 == bsm_states'[bsm_agent]
                 a1 == AnomalyScore(bsm_states, bsm_agent)
                 a2 == AnomalyScore(bsm_states', bsm_agent)
             IN /\ s2.t = s.t + 1
                /\ s2.alarm_count - s.alarm_count = Len(bsm_alarms') - Len(bsm_alarms)
                /\ Len(bsm_alarms') = Len(bsm_alarms) => a2.n * a1.d <= a1.n * a2.d]_vars

\* a monitor call has observed an outcome without alarm for an actor whose
\* previous call reported a positive score, and the score is now strictly lower
C19_Witness ==
    /\ bsm_pc = "loop"
    /\ bsm_result # NoResult
    /\ bsm_result.agent_id = bsm_agent
    /\ bsm_result.anomaly_score.n > 0
    /\ bsm_states[bsm_agent].t > bsm_result.t
    /\ bsm_alarms = <<>>
    /\ AnomalyScore(bsm_states, bsm_agent).n > 0
    /\ AnomalyScore(bsm_states, bsm_agent).n * bsm_result.anomaly_score.d
          < bsm_result.anomaly_score.n * AnomalyScore(bsm_states, bsm_agent).d

\* C20: while the outcomes observed for an actor are all equal, and on its very
\* first observation, the z-score is 0, both accumulators stay 0 and no alarm is
\* raised, however the stream is split across monitor calls.
C20_ZeroVarianceNoAlarm ==
    [][(bsm_pc = "loop" /\ bsm_stream # <<>>) =>
          LET s  == bsm_states[bsm_agent]
              w  == WindowAppend(s.window, Head(bsm_stream))
              s2 == bsm_states'[bsm_agent]
          IN (AllSame(w) /\ Len(w) = s.t + 1) =>
                /\ ZscoreNormalize(Head(bsm_stream), w) = 0
                /\ s2.cusum_pos = 0
                /\ s2.cusum_neg = 0
                /\ s2.alarm_count = 0
                /\ bsm_alarms' = bsm_alarms]_vars

\* an actor observed for MaxObs equal positive outcomes, over several monitor
\* calls, with both accumulators at 0 and no alarm
C20_Witness ==
    /\ bsm_pc = "idle"
    /\ bsm_result # NoResult
    /\ bsm_result.t = MaxObs
    /\ bsm_result.t > MaxStream
    /\ AllSame(bsm_states[bsm_result.agent_id].window)
    /\ bsm_states[bsm_result.agent_id].window[1] = 1
    /\ bsm_result.cusum_pos = 0
    /\ bsm_result.cusum_neg = 0
    /\ bsm_states[bsm_result.agent_id].alarm_count = 0

\* C17: when gamma exceeds the jump threshold 3.0 the jump of the dynamics step
\* pushes x away from mu: it is >= 0 when x > mu and <= 0 when x < mu; when
\* gamma <= 3.0 no jump is added.
C17_JumpAwayFromMu ==
    vadm_ret # NoReturn =>
       IF vadm_ret.gamma > GAMMA_THRESHOLD
       THEN /\ vadm_ret.x0 > vadm_ret.mu => vadm_ret.jump >= 0
            /\ vadm_ret.x0 < vadm_ret.mu => vadm_ret.jump <= 0
       ELSE vadm_ret.jump = 0

\* C13: the reputation and volatility the dynamics update produces for an actor
\* do not depend on the order in which the actors of a tick are updated:
\* stepping two actors in either order gives each the same result.
C13_OrderIndependent ==
    \A a \in DOMAIN order_ret[1] \cap DOMAIN order_ret[2] :
       order_ret[1][a] = order_ret[2][a]

\* C12: two runs constructed with the same seeds and driven by the same calls
\* produce the same credential records in every field and the same interaction
\* targets, whatever the wall clock and the process-wide generator of each run.
C12_Reproducible ==
    run_out[1] = run_out[2]

\* C14: recompute barrier. Edges are only ever added; every edge update of a
\* step of the model (forced by the scenario or generated by an agent) is
\* applied before the tick hook of that step has run; the tick hook runs when
\* every agent of the schedule has been stepped, and a recompute derives the
\* partition and the statistics from the graph as it is then, which holds every
\* edge recorded in this step and in all earlier ones.
C14_RecomputeBarrier ==
    [][/\ \A p \in Pairs : weight'[p] >= weight[p]
       /\ (weight' # weight \/ last' # last) =>
             /\ ite_step' = ite_step
             /\ ite_step = current_step' - 1
       /\ ite_step' # ite_step =>
             /\ pending = {}
             /\ ite_step' = current_step
             /\ weight' = weight
             /\ RecomputeDue(ite_step', ite_cfg.recompute_interval) =>
                   /\ partition' \in PossiblePartitions(nodes, weight)
                   /\ \A cid \in DOMAIN comm_stats' :
                         comm_stats'[cid] = CommStatsOf(partition', weight', cid)]_vars

\* the recompute of the first window has just run on a graph that holds the
\* edges every agent generated in each step of the window
C14_Witness ==
    /\ lastEvent.op = "tick"
    /\ ite_step = ite_cfg.recompute_interval
    /\ current_step = ite_step
    /\ partition # <<>>
    /\ \A a \in Agents : ~isolated[a] =>
          SumF(weight, {a} \X Agents) >= ite_step

\* C21: non-revoked credentials are preferred. When at least one supplied
\* credential is non-revoked, process returns what it returns for the
\* non-revoked credentials alone; when every supplied credential is revoked, it
\* returns the fusion of all of them.
C21_NonRevokedPreferred ==
    lastOp = "process" =>
       LET kept == SelectSeq(credsIn, NotRevoked)
           all  == [i \in 1..Len(credsIn) |-> WeightedBBA(credsIn[i])]
       IN IF kept # <<>> THEN irvOut = Process(kept)
          ELSE IF credsIn = <<>> THEN irvOut = ZeroIRV
          ELSE irvOut = IRVOf(FoldCombine(Head(all), Tail(all)))

\* a revoked credential was supplied next to a non-revoked one, and fusing it
\* in would have changed the result
C21_Witness ==
    /\ lastOp = "process"
    /\ \E i, j \in 1..Len(credsIn) : credsIn[i].revoked /\ ~credsIn[j].revoked
    /\ LET all == [i \in 1..Len(credsIn) |-> WeightedBBA(credsIn[i])]
       IN irvOut # IRVOf(FoldCombine(Head(all), Tail(all)))

\* C22: generate_interactions(actor, candidates) returns exactly
\* min(k, number of candidates other than the actor) pairs; their targets are
\* pairwise distinct, are members of the candidate list and are never the actor;
\* with fewer than k other candidates it returns the smaller count, and with
\* none the empty list.
C22_SampleDistinctPeers ==
    lastEvent.op = "generate_interactions" =>
       LET pairs == lastEvent.pairs
           others == lastEvent.all_ids \ {lastEvent.agent}
       IN /\ Len(pairs) = Min(ite_cfg.k_interactions, Cardinality(others))
          /\ \A i, j \in 1..Len(pairs) : i # j => pairs[i][1] # pairs[j][1]
          /\ \A i \in 1..Len(pairs) :
                /\ pairs[i][1] \in lastEvent.all_ids
                /\ pairs[i][1] # lastEvent.agent
                /\ pairs[i][2] \in {0, 1}
          /\ others = {} => pairs = <<>>

\* the actor is in its own candidate list next to a single other candidate:
\* one pair comes back, fewer than the fan-out
C22_Witness ==
    /\ lastEvent.op = "generate_interactions"
    /\ lastEvent.agent \in lastEvent.all_ids
    /\ Cardinality(lastEvent.all_ids) = 2
    /\ Len(lastEvent.pairs) = 1
    /\ Len(lastEvent.pairs) < ite_cfg.k_interactions

\* the interactions <<source, target, outcome>> the call of an event records,
\* in the order it records them
Recorded(e) ==
    IF e.op = "generate_interactions"
    THEN [i \in 1..Len(e.pairs) |-> <<e.agent, e.pairs[i][1], e.pairs[i][2]>>]
    ELSE IF e.op = "force_interaction" THEN <<(<<e.u, e.v, e.outcome>>)>>
    ELSE <<>>

\* C23: interaction-graph bookkeeping. Every call of generate_interactions or
\* force_interaction raises the weight of each ordered pair by the number of
\* interactions it records for that pair (from 0 for a pair never seen) and
\* stores the outcome of the most recent one; no node and no edge is removed;
\* the neighbour sets are symmetric.
C23_GraphBookkeeping ==
    [][LET rec == Recorded(lastEvent')
           hits(p) == {i \in 1..Len(rec) : rec[i][1] = p[1] /\ rec[i][2] = p[2]}
       IN /\ \A p \in Pairs :
                /\ weight'[p] = weight[p] + Cardinality(hits(p))
                /\ last'[p] = IF hits(p) = {} THEN last[p]
                              ELSE rec[CHOOSE i \in hits(p) : \A j \in hits(p) : j <= i][3]
          /\ nodes \subseteq nodes'
          /\ \A i \in 1..Len(rec) : {rec[i][1], rec[i][2]} \subseteq nodes'
          /\ \A u, v \in Agents : v \in nbrs'[u] <=> u \in nbrs'[v]]_vars

\* a pair recorded before is recorded again with the other outcome: its edge
\* is updated in place and the source is its target's neighbour
C23_Witness ==
    /\ lastEvent.op = "force_interaction"
    /\ lastEvent.u # lastEvent.v
    /\ weight[<<lastEvent.u, lastEvent.v>>] = 2
    /\ last[<<lastEvent.u, lastEvent.v>>] = lastEvent.outcome
    /\ lastEvent.u \in nbrs[lastEvent.v]
    /\ \E p \in Pairs : weight[p] > 0 /\ last[p] # lastEvent.outcome

\* C24: after each recompute, every community's external ratio is the number
\* of graph edges with exactly one endpoint in the community divided by the
\* number of graph edges with at least one endpoint in it, edges that enter the
\* community counted like edges that leave it.
C24_ExternalRatioCountsBothWays ==
    (lastEvent.op = "tick" /\ RecomputeDue(ite_step, ite_cfg.recompute_interval)) =>
       \A cid \in DOMAIN comm_stats :
          LET mset == comm_stats[cid].members
              touching == {p \in GraphEdges(weight) : p[1] \in mset \/ p[2] \in mset}
              crossing == {p \in touching : ~(p[1] \in mset /\ p[2] \in mset)}
          IN touching # {} =>
                comm_stats[cid].ext_ratio =
                   (Cardinality(crossing) * XScale) \div Cardinality(touching)

\* C30: after every recompute, for any graph built by generate_interactions and
\* force_interaction (force_interaction(u, u, ...) included), the partition
\* gives a community to every node of the graph and every community's internal
\* density and external ratio lie in [0, 1].
C30_StatsInUnitInterval ==
    (lastEvent.op = "tick" /\ RecomputeDue(ite_step, ite_cfg.recompute_interval)) =>
       /\ DOMAIN partition = nodes
       /\ \A cid \in DOMAIN comm_stats :
             /\ 0 <= comm_stats[cid].din
             /\ comm_stats[cid].din <= XScale
             /\ 0 <= comm_stats[cid].ext_ratio
             /\ comm_stats[cid].ext_ratio <= XScale

\* C25: conditioning a normalized mass assignment on a non-empty hypothesis C
\* moves the mass of each hypothesis onto its intersection with C, drops the
\* empty intersections and renormalizes: the result sums to 1, every hypothesis
\* carrying mass is a non-empty subset of C and carries the moved mass over the
\* total moved; when no mass intersects C the result is full mass on the frame.
C25_ConditioningRenormalizes ==
    (lastOp = "condition" /\ condition_set # EMPTY) =>
       LET total == SumTo([i \in 1..NSub |->
                             IF SubsetSeq[i] \cap condition_set # EMPTY
                             THEN Mass(lastM1, SubsetSeq[i]) ELSE 0], NSub)
       IN /\ TotalMass(acc) = acc.d
          /\ IF total = 0 THEN acc = Vacuous
             ELSE /\ \A B \in DOMAIN acc.m :
                        acc.m[B] > 0 => (B # EMPTY /\ B \subseteq condition_set)
                  /\ \A B \in SUBSETS :
                        Mass(acc, B) * total = acc.d * MovedOnto(lastM1, condition_set, B)

\* mass on a hypothesis disjoint from C was dropped and mass on a hypothesis
\* that is not inside C was moved onto its intersection with C
C25_Witness ==
    /\ lastOp = "condition"
    /\ condition_set # EMPTY
    /\ \E A \in DOMAIN lastM1.m : lastM1.m[A] > 0 /\ A \cap condition_set = EMPTY
    /\ \E A \in DOMAIN lastM1.m :
          /\ lastM1.m[A] > 0
          /\ A \cap condition_set # EMPTY
          /\ ~(A \subseteq condition_set)
    /\ TotalMass(acc) = acc.d
    /\ acc # Vacuous

\* C26: fusion worked example. Combining m1 = {{trusted}: 0.6, {unknown}: 0.1,
\* frame: 0.3} with itself gives conflict K = 0.12 and the fused masses
\* {trusted} = 0.72/0.88, {unknown} = 0.07/0.88, frame = 0.09/0.88, on no other
\* hypothesis, summing to 1.
C26_WorkedExample ==
    (lastOp = "combine" /\ lastM1 = TenthsExample /\ lastM2 = TenthsExample) =>
       LET K == ConflictCoeff(lastM1, lastM2)
       IN /\ K.n * 100 = 12 * K.d
          /\ DOMAIN acc.m = {S_TR, S_UK, FRAME}
          /\ acc.m[S_TR] * 88 = 72 * acc.d
          /\ acc.m[S_UK] * 88 = 7 * acc.d
          /\ acc.m[FRAME] * 88 = 9 * acc.d
          /\ TotalMass(acc) = acc.d

\* the example has been combined with itself as the first fusion of a fold
C26_Witness ==
    /\ lastOp = "combine"
    /\ nFold = 1
    /\ lastM1 = TenthsExample
    /\ lastM2 = TenthsExample
    /\ acc # Vacuous

\* C29: between observations, for every monitored actor, both CUSUM
\* accumulators lie in [0, H] for the control limit H the monitor was
\* constructed with; the cumulative alarm count never exceeds the cumulative
\* number of observations and never decreases.
C29_AccumulatorsWithinLimit ==
    [][\A a \in DOMAIN bsm_states' :
          /\ 0 <= bsm_states'[a].cusum_pos
          /\ bsm_states'[a].cusum_pos <= bsm_cfg'.h
          /\ 0 <= bsm_states'[a].cusum_neg
          /\ bsm_states'[a].cusum_neg <= bsm_cfg'.h
          /\ bsm_states'[a].alarm_count <= bsm_states'[a].t
          /\ a \in DOMAIN bsm_states =>
                bsm_states'[a].alarm_count >= bsm_states[a].alarm_count]_vars

\* C27: OU-only trajectory generation keeps the clip-to-[0, 1] convention. For
\* any start value, target mu and n_steps >= 0 the trajectory has n_steps + 1
\* values, each of them in [0, 1], the first included, and generating it leaves
\* the stored state of every actor unchanged.
C27_TrajectoryClipped ==
    [][ou_traj' # NoTrajectory =>
          /\ Len(ou_traj'.traj) = ou_traj'.n_steps + 1
          /\ \A i \in 1..Len(ou_traj'.traj) :
                X_LO <= ou_traj'.traj[i] /\ ou_traj'.traj[i] <= X_HI
          /\ vadm_states' = vadm_states]_vars

\* the distinct credentials registered for a subject
DistinctOf(by_subject, subject_id) ==
    {ListAt(by_subject, subject_id)[k] : k \in 1..Len(ListAt(by_subject, subject_id))}

\* C28: registry revocation. revoke(vc_id) on a registered credential whose
\* status is ACTIVE sets it to REVOKED, returns True and lowers the subject's
\* active count by exactly one; on an unknown or already revoked id it returns
\* False and changes nothing; after every register or revoke call
\* revocation_ratio(subject) is the number of the subject's distinct
\* credentials with status REVOKED over the number of distinct credentials
\* registered for the subject, 0 when there is none.
C28_RegistryRevocation ==
    [][/\ reg_ret'.op = "revoke" =>
             IF /\ reg_ret'.vc_id \in DOMAIN reg_entries
                /\ reg_entries[reg_ret'.vc_id].status = STATUS_ACTIVE
             THEN LET subject == reg_entries[reg_ret'.vc_id].subject_id
                  IN /\ reg_entries'[reg_ret'.vc_id].status = STATUS_REVOKED
                     /\ reg_ret'.result = TRUE
                     /\ ActiveCount(reg_entries', reg_by_subject', subject) =
                           ActiveCount(reg_entries, reg_by_subject, subject) - 1
             ELSE /\ reg_ret'.result = FALSE
                  /\ UNCHANGED <<reg_entries, reg_by_subject, reg_by_type, reg_totals>>
       /\ reg_ret'.op \in {"register", "revoke"} =>
             \A subject \in {1, 2} :
                LET ids == DistinctOf(reg_by_subject', subject)
                    revoked == {i \in ids : reg_entries'[i].status = STATUS_REVOKED}
                    ratio == RevocationRatio(reg_entries', reg_by_subject', subject)
                IN IF ids = {} THEN ratio.n = 0
                   ELSE ratio.n * Cardinality(ids) = Cardinality(revoked) * ratio.d]_vars

====
